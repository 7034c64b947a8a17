------------------------------ MODULE ReplProofs ------------------------------
(***************************************************************************)
(* Theorems about Repl: a service is complete, has its own environment and *)
(* its facade, and gives way only to a complete one.                       *)
(***************************************************************************)
EXTENDS Repl, PrefixLemmas, TLAPS

\* What a service lays over the configuration of a module.
Laid(id, config) ==
    RootWasiFilesAt(ExtendWasiEnvs(config, Inserted(ServiceEnvs, "service_id", <<id>>)), WorkingDir)

PreparedModule(id, m) == [FromTomlModule(m) EXCEPT !.config = Laid(id, @)]

LaidWasi(id, m) == Laid(id, FromTomlModule(m).config).wasi

LaidEnvs(id, m) ==
    LET new == Inserted(ServiceEnvs, "service_id", <<id>>)
    IN  IF m.wasi = Nothing THEN new ELSE Extended(m.wasi.envs, new)

Aliases(m) == IF m.wasi = Nothing THEN {} ELSE DOMAIN m.wasi.mapped_dirs

\* What a module of the TOML is to be loaded with.
BuiltFor(id, m) ==
    MakeMarineConfig(m.name, Laid(id, FromTomlModule(m).config), FromEnvString(filter))

DirsOf(id, m) == ToCreate(Laid(id, FromTomlModule(m).config))

CreationFields == {"id", "toml", "empty", "stage", "config", "next", "table"}
ServiceFields == {"id", "facade", "toml", "modules", "unloaded"}

\* What is always so of a service in the making.
CreationShape ==
    creating # Nothing =>
        /\ DOMAIN creating = CreationFields
        /\ creating.id \in used
        /\ creating.toml \in Configs
        /\ creating.empty = (host = "repl")
        /\ creating.stage \in {"read", "prepare", "load"}
        /\ creating.next \in 1..(Len(creating.toml.module) + 1)
        /\ creating.stage = "read" => creating.next = 1

\* How far the configuration has come: its first modules are prepared, and
\* their directories made.
ConfigMade ==
    creating # Nothing /\ creating.stage # "read" =>
        LET toml == creating.toml
            config == creating.config
        IN  /\ ~creating.empty => toml.module # <<>>
            /\ DOMAIN config = {"modules_dir", "modules_config"}
            /\ config.modules_config = [i \in DOMAIN toml.module |-> config.modules_config[i]]
            /\ \A i \in DOMAIN toml.module :
                IF creating.stage = "load" \/ i < creating.next
                THEN /\ config.modules_config[i] = PreparedModule(creating.id, toml.module[i])
                     /\ DirsOf(creating.id, toml.module[i]) \subseteq dirs \cup Files
                ELSE config.modules_config[i] = FromTomlModule(toml.module[i])

\* The table holds the modules loaded so far, each with its configuration.
TableMade ==
    creating # Nothing =>
        IF creating.stage = "load"
        THEN /\ DOMAIN creating.table = {creating.toml.module[i].name : i \in 1..(creating.next - 1)}
             /\ \A i \in 1..(creating.next - 1) :
                    creating.table[creating.toml.module[i].name] =
                        BuiltFor(creating.id, creating.toml.module[i])
        ELSE DOMAIN creating.table = {}

\* While a module is being loaded, its name is not in use.
LoadsNew ==
    request = "create" /\ guest # "none" =>
        /\ creating.stage = "load"
        /\ creating.next \in DOMAIN creating.toml.module
        /\ creating.toml.module[creating.next].name \notin DOMAIN creating.table

ServiceShape ==
    service # Nothing =>
        /\ DOMAIN service = ServiceFields
        /\ service.id \in used
        /\ service.toml \in Configs
        /\ DOMAIN service.modules \subseteq Names

\* A service has what it was made for, until somebody unloads it.
ServiceMade ==
    service # Nothing =>
        \A m \in Standing :
            /\ m.name \in DOMAIN service.modules
            /\ service.modules[m.name] = BuiltFor(service.id, m)

FacadeMade ==
    service # Nothing =>
        IF host = "repl"
        THEN service.facade = ""
        ELSE service.facade \in DOMAIN service.modules \cup service.unloaded

\* Guest code runs for a request, a call has a timer, and only a peer whose
\* facade was unloaded panics.
Requests ==
    /\ (creating # Nothing) <=> (request = "create")
    /\ request = "none" => guest = "none"
    /\ request \in {"load", "call"} => service # Nothing /\ argument \in Names
    /\ timer # "off" => request = "call"
    /\ reply = "panic" =>
        /\ request = "none" /\ service # Nothing /\ host = "peer"
        /\ service.facade \notin DOMAIN service.modules

Typed ==
    /\ filter \in Filters
    /\ dirs \subseteq Seq(STRING)
    /\ used \subseteq ServiceIds
    /\ guest \in {"none", "running", "yielded", "binary"}
    /\ request \in {"none", "create", "load", "call"}
    /\ argument \in Names \cup {Absent}
    /\ reply \in {"none", "ok", "failed", "refused", "interrupted", "panic"}
    /\ host \in {"repl", "peer"}
    /\ phase \in {"starting", "ready", "over"}
    /\ ticker \in BOOLEAN /\ due \in BOOLEAN
    /\ timer \in {"off", "armed", "elapsed"}

CreationInv == CreationShape /\ ConfigMade /\ TableMade

ServiceInv == ServiceShape /\ ServiceMade /\ FacadeMade

ReplInv == Typed /\ Requests /\ CreationInv /\ LoadsNew /\ ServiceInv

------------------------------------------------------------------------------
(* What a configuration becomes.                                           *)

WasiOK(wasi) ==
    wasi # Nothing =>
        /\ wasi = [envs |-> wasi.envs, mapped_dirs |-> wasi.mapped_dirs]
        /\ wasi.mapped_dirs \in [DOMAIN wasi.mapped_dirs -> Seq(STRING)]

\* The modules of a configuration.
LEMMA ModulesOf ==
  ASSUME NEW toml \in Configs
  PROVE  /\ toml.module \in Seq(Range(toml.module))
         /\ Len(toml.module) \in Nat
         /\ DOMAIN toml.module = 1..Len(toml.module)
         /\ \A i \in DOMAIN toml.module :
                toml.module[i].name \in Names /\ WasiOK(toml.module[i].wasi)
<1>1. toml.module \in Seq(Range(toml.module))
  BY ConfigsAssumption DEF WellFormed
<1>2. \A i \in DOMAIN toml.module : toml.module[i] \in Range(toml.module)
  BY DEF Range
<1>3. \A m \in Range(toml.module) : m.name \in Names /\ WasiOK(m.wasi)
  BY ConfigsAssumption DEF WellFormed, WasiOK
<1> HIDE DEF WasiOK
<1> QED
  BY <1>1, <1>2, <1>3

\* The layers of a WASI configuration: what maps a directory wins over the
\* service, the service over the configuration; each directory is put under
\* the working directory.
LEMMA LaidIs ==
  ASSUME NEW id, NEW m, WasiOK(m.wasi)
  PROVE  /\ LaidWasi(id, m) # Nothing
         /\ LaidWasi(id, m).envs = LaidEnvs(id, m)
         /\ DOMAIN LaidWasi(id, m).mapped_dirs = Aliases(m)
         /\ \A a \in Aliases(m) :
                LaidWasi(id, m).mapped_dirs[a] = Join(WorkingDir, m.wasi.mapped_dirs[a])
<1> DEFINE c == FromTomlModule(m).config
           new == Inserted(ServiceEnvs, "service_id", <<id>>)
<1>1. c.wasi = m.wasi /\ "wasi" \in DOMAIN c
  BY DEF FromTomlModule
<1>0. LaidWasi(id, m) = RootWasiFilesAt(ExtendWasiEnvs(c, new), WorkingDir).wasi
  BY DEF LaidWasi, Laid
<1> HIDE DEF new, c
<1>2. CASE m.wasi = Nothing
  <2> DEFINE e == ExtendWasiEnvs(c, new)
  <2>1. e.wasi = [envs |-> new, mapped_dirs |-> <<>>] /\ "wasi" \in DOMAIN e
    BY <1>1, <1>2 DEF ExtendWasiEnvs
  <2> HIDE DEF e
  <2>2. LaidWasi(id, m) = RootWasiFilesAt(e, WorkingDir).wasi
    BY <1>0 DEF e
  <2>3. e.wasi # Nothing
    BY <2>1 DEF Nothing
  <2>4. LaidWasi(id, m) = [e.wasi EXCEPT !.mapped_dirs = [a \in DOMAIN @ |-> Join(WorkingDir, @[a])]]
    BY <2>1, <2>2, <2>3 DEF RootWasiFilesAt
  <2>5. /\ DOMAIN LaidWasi(id, m).mapped_dirs = {}
        /\ LaidWasi(id, m).envs = new
        /\ DOMAIN LaidWasi(id, m) = {"envs", "mapped_dirs"}
    BY <2>1, <2>4
  <2>6. Aliases(m) = {} /\ LaidEnvs(id, m) = new
    BY <1>2 DEF Aliases, LaidEnvs, new
  <2> QED
    BY <2>5, <2>6 DEF Nothing
<1>3. CASE m.wasi # Nothing
  <2> DEFINE w == m.wasi
             e == ExtendWasiEnvs(c, new)
             rooted == [a \in DOMAIN w.mapped_dirs |-> Join(WorkingDir, w.mapped_dirs[a])]
  <2>1. w = [envs |-> w.envs, mapped_dirs |-> w.mapped_dirs] /\ c.wasi = w /\ w # Nothing
    BY <1>1, <1>3 DEF WasiOK
  <2> HIDE DEF w
  <2>2. e.wasi = [w EXCEPT !.envs = Extended(w.envs, new)] /\ "wasi" \in DOMAIN e
    BY <1>1, <2>1 DEF ExtendWasiEnvs
  <2>3. e.wasi = [envs |-> Extended(w.envs, new), mapped_dirs |-> w.mapped_dirs]
    BY <2>1, <2>2
  <2> HIDE DEF e
  <2>4. e.wasi # Nothing
    BY <2>3 DEF Nothing
  <2>5. RootWasiFilesAt(e, WorkingDir).wasi = [e.wasi EXCEPT !.mapped_dirs = rooted]
    BY <2>2, <2>3, <2>4 DEF RootWasiFilesAt
  <2>6. LaidWasi(id, m) = [envs |-> Extended(w.envs, new), mapped_dirs |-> rooted]
    BY <1>0, <2>3, <2>5 DEF e
  <2>7. /\ Aliases(m) = DOMAIN w.mapped_dirs
        /\ LaidEnvs(id, m) = Extended(w.envs, new)
        /\ w = m.wasi
    BY <1>3 DEF Aliases, LaidEnvs, new, w
  <2>8. DOMAIN rooted = DOMAIN w.mapped_dirs
    OBVIOUS
  <2>9. \A a \in DOMAIN w.mapped_dirs : rooted[a] = Join(WorkingDir, w.mapped_dirs[a])
    OBVIOUS
  <2> HIDE DEF rooted
  <2> QED
    BY <2>6, <2>7, <2>8, <2>9 DEF Nothing
<1> QED
  BY <1>2, <1>3

\* The builder takes the environment and the directories from the WASI
\* configuration, whatever the logger and the host imports put there.
LEMMA BuiltIs ==
  ASSUME NEW name, NEW config, NEW levels, config.wasi # Nothing
  PROVE  LET built == MakeMarineConfig(name, config, levels)
         IN  /\ built.envs = Extended(config.wasi.envs, config.wasi.mapped_dirs)
             /\ built.mapped_dirs = config.wasi.mapped_dirs
<1> DEFINE logged == PopulateLogger(EmptyModuleConfig, config.logger_enabled, levels, name)
           imported == PopulateHostImports(logged, config.host_imports)
<1>1. DOMAIN EmptyModuleConfig = {"envs", "mapped_dirs", "host_imports", "raw_imports"}
  BY DEF EmptyModuleConfig
<1>2. DOMAIN logged = DOMAIN EmptyModuleConfig
  BY DEF PopulateLogger
<1> HIDE DEF logged
<1>3. DOMAIN imported = DOMAIN logged
  BY DEF PopulateHostImports
<1>4. MakeMarineConfig(name, config, levels) = PopulateWasi(imported, config.wasi)
  BY DEF MakeMarineConfig, logged
<1> HIDE DEF imported
<1> QED
  BY <1>1, <1>2, <1>3, <1>4 DEF PopulateWasi

\* The environment that a module of a service has.
OwnEnvironmentAs(id, m, built) ==
    /\ "service_id" \in Aliases(m) \/ built.envs["service_id"] = <<id>>
    /\ \A e \in DOMAIN ServiceEnvs \ (Aliases(m) \cup {"service_id"}) :
            built.envs[e] = ServiceEnvs[e]
    /\ \A a \in Aliases(m) :
            /\ built.mapped_dirs[a] = Join(WorkingDir, m.wasi.mapped_dirs[a])
            /\ built.envs[a] = built.mapped_dirs[a]

LEMMA OwnEnvironmentOf ==
  ASSUME NEW id, NEW m, WasiOK(m.wasi)
  PROVE  OwnEnvironmentAs(id, m, BuiltFor(id, m))
<1> DEFINE new == Inserted(ServiceEnvs, "service_id", <<id>>)
           laid == LaidWasi(id, m)
           built == BuiltFor(id, m)
<1>1. /\ DOMAIN new = DOMAIN ServiceEnvs \cup {"service_id"}
      /\ new["service_id"] = <<id>>
      /\ \A e \in DOMAIN ServiceEnvs \ {"service_id"} : new[e] = ServiceEnvs[e]
  BY DEF Inserted
<1>2. /\ laid # Nothing
      /\ laid.envs = LaidEnvs(id, m)
      /\ DOMAIN laid.mapped_dirs = Aliases(m)
      /\ \A a \in Aliases(m) : laid.mapped_dirs[a] = Join(WorkingDir, m.wasi.mapped_dirs[a])
  BY LaidIs
<1>3. built.envs = Extended(laid.envs, laid.mapped_dirs) /\ built.mapped_dirs = laid.mapped_dirs
  BY <1>2, BuiltIs DEF BuiltFor, LaidWasi
<1>4. /\ DOMAIN new \subseteq DOMAIN LaidEnvs(id, m)
      /\ \A e \in DOMAIN new : LaidEnvs(id, m)[e] = new[e]
  <2> HIDE DEF new
  <2>1. LaidEnvs(id, m) = IF m.wasi = Nothing THEN new ELSE Extended(m.wasi.envs, new)
    BY DEF LaidEnvs, new
  <2> QED
    BY <2>1 DEF Extended
<1> HIDE DEF new, laid, built
<1>5. /\ \A a \in Aliases(m) : built.envs[a] = laid.mapped_dirs[a]
      /\ \A e \in DOMAIN new \ Aliases(m) : built.envs[e] = new[e]
  BY <1>2, <1>3, <1>4 DEF Extended
<1>6. OwnEnvironmentAs(id, m, built)
  BY <1>1, <1>2, <1>3, <1>5 DEF OwnEnvironmentAs
<1> QED
  BY <1>6 DEF built

\* Paths stay sequences of names, and a path is among its ancestors.
LEMMA Paths ==
  /\ \A path \in Seq(STRING) : Join(WorkingDir, path) \in Seq(STRING) \ {<<>>}
  /\ \A path \in Seq(STRING) : Ancestors(path) \subseteq Seq(STRING)
  /\ \A path \in Seq(STRING) \ {<<>>} : path \in Ancestors(path)
<1>1. WorkingDir \in Seq(STRING) \ {<<>>}
  BY PathsAssumption DEF IsAbsolute
<1>2. ASSUME NEW path \in Seq(STRING)
      PROVE  Join(WorkingDir, path) \in Seq(STRING) \ {<<>>}
  BY <1>1, <1>2 DEF Join, IsAbsolute
<1>3. ASSUME NEW path \in Seq(STRING)
      PROVE  Ancestors(path) \subseteq Seq(STRING)
  <2>1. \A n \in 1..Len(path) : SubSeq(path, 1, n) \in Seq(STRING)
    OBVIOUS
  <2> QED
    BY <2>1 DEF Ancestors
<1>4. ASSUME NEW path \in Seq(STRING) \ {<<>>}
      PROVE  path \in Ancestors(path)
  <2>1. Len(path) \in 1..Len(path) /\ SubSeq(path, 1, Len(path)) = path
    OBVIOUS
  <2> QED
    BY <2>1 DEF Ancestors
<1> QED
  BY <1>2, <1>3, <1>4

\* The directories of a module are paths, none of them empty.
LEMMA DirsArePaths ==
  ASSUME NEW id, NEW m, WasiOK(m.wasi)
  PROVE  DirsOf(id, m) \subseteq Seq(STRING) \ {<<>>}
<1> DEFINE laid == LaidWasi(id, m)
<1>1. /\ DOMAIN laid.mapped_dirs = Aliases(m)
      /\ \A a \in Aliases(m) : laid.mapped_dirs[a] = Join(WorkingDir, m.wasi.mapped_dirs[a])
  BY LaidIs
<1>2. \A a \in Aliases(m) : m.wasi.mapped_dirs[a] \in Seq(STRING)
  BY DEF WasiOK, Aliases
<1> HIDE DEF laid
<1>3. \A a \in DOMAIN laid.mapped_dirs : laid.mapped_dirs[a] \in Seq(STRING) \ {<<>>}
  BY <1>1, <1>2, Paths
<1>4. DirsOf(id, m) \subseteq {laid.mapped_dirs[a] : a \in DOMAIN laid.mapped_dirs}
  BY DEF DirsOf, ToCreate, laid, LaidWasi
<1> QED
  BY <1>3, <1>4

------------------------------------------------------------------------------
(* What the parts of the invariant depend on. *)

LEMMA CreationSame ==
  ASSUME CreationInv, UNCHANGED <<creating, host, filter>>,
         used \subseteq used', dirs \subseteq dirs'
  PROVE  CreationInv'
<1>1. CreationShape'
  BY DEF CreationInv, CreationShape, CreationFields
<1>2. ConfigMade'
  BY DEF CreationInv, ConfigMade
<1>3. TableMade'
  BY DEF CreationInv, TableMade, BuiltFor
<1> QED
  BY <1>1, <1>2, <1>3 DEF CreationInv

LEMMA CreationOver ==
  ASSUME creating' = Nothing
  PROVE  CreationInv'
BY DEF CreationInv, CreationShape, ConfigMade, TableMade

LEMMA ServiceSame ==
  ASSUME ServiceInv, UNCHANGED <<service, host, filter>>, used \subseteq used'
  PROVE  ServiceInv'
<1>1. ServiceShape'
  BY DEF ServiceInv, ServiceShape, ServiceFields
<1>2. ServiceMade'
  BY DEF ServiceInv, ServiceMade, Standing, BuiltFor
<1>3. FacadeMade'
  BY DEF ServiceInv, FacadeMade
<1> QED
  BY <1>1, <1>2, <1>3 DEF ServiceInv

\* The module that is looked at, and whether there is one.
LEMMA CurrentIs ==
  ASSUME CreationInv, creating # Nothing, creating.stage # "read"
  PROVE  /\ More <=> creating.next \in DOMAIN creating.toml.module
         /\ creating.stage = "prepare" /\ More =>
                /\ Current = FromTomlModule(creating.toml.module[creating.next])
                /\ Prepared = Laid(creating.id, Current.config)
         /\ creating.stage = "load" /\ More =>
                /\ Current.import_name = creating.toml.module[creating.next].name
                /\ Built = BuiltFor(creating.id, creating.toml.module[creating.next])
<1> DEFINE m == creating.toml.module[creating.next]
<1>1. More <=> creating.next \in DOMAIN creating.toml.module
  BY DEF CreationInv, ConfigMade, More
<1>2. ASSUME creating.stage = "prepare", More
      PROVE  /\ Current = FromTomlModule(m)
             /\ Prepared = Laid(creating.id, Current.config)
  <2>1. ~(creating.next < creating.next)
    BY DEF CreationInv, CreationShape
  <2>2. Current = FromTomlModule(m)
    BY <1>1, <1>2, <2>1 DEF CreationInv, ConfigMade, Current
  <2> QED
    BY <2>2 DEF Prepared, Laid
<1>3. ASSUME creating.stage = "load", More
      PROVE  /\ Current.import_name = m.name
             /\ Built = BuiltFor(creating.id, m)
  <2>1. Current = PreparedModule(creating.id, m)
    BY <1>1, <1>3 DEF CreationInv, ConfigMade, Current
  <2>2. /\ Current.import_name = m.name
        /\ Current.config = Laid(creating.id, FromTomlModule(m).config)
    BY <2>1 DEF PreparedModule, FromTomlModule
  <2> QED
    BY <2>2 DEF Built, BuiltFor
<1> QED
  BY <1>1, <1>2, <1>3

------------------------------------------------------------------------------
(* Creation, step by step. *)

LEMMA BeginStep ==
  ASSUME ReplInv, NEW c \in Configs, NEW i \in ServiceIds, NewService(c, i)
  PROVE  ReplInv'
<1> USE DEF ReplInv
<1>1. creating' = [id |-> i, toml |-> c, empty |-> (host = "repl"), stage |-> "read",
                   config |-> Absent, next |-> 1, table |-> <<>>]
  BY DEF NewService, BeginCreate, Begun
<1>2. creating' # Nothing
  BY <1>1 DEF Nothing
<1>3. Typed' /\ Requests' /\ guest' = "none"
  BY <1>2 DEF NewService, BeginCreate, Idle, Typed, Requests
<1>4. used' = used \cup {i} /\ UNCHANGED <<service, host, filter, dirs>>
  BY DEF NewService, BeginCreate
<1>5. CreationInv'
  <2>1. Len(c.module) \in Nat
    BY ModulesOf
  <2>2. CreationShape'
    BY <1>1, <1>2, <1>4, <2>1 DEF CreationShape, CreationFields
  <2>3. ConfigMade' /\ TableMade'
    BY <1>1 DEF ConfigMade, TableMade
  <2> QED
    BY <2>2, <2>3 DEF CreationInv
<1>6. LoadsNew'
  BY <1>3 DEF LoadsNew
<1>7. ServiceInv'
  BY <1>4, ServiceSame
<1> QED
  BY <1>3, <1>5, <1>6, <1>7

LEMMA ReadStep ==
  ASSUME ReplInv, ReadConfig, UNCHANGED replVars
  PROVE  ReplInv'
<1> USE DEF ReplInv
<1>1. creating # Nothing /\ DOMAIN creating = CreationFields /\ creating.stage = "read"
  BY DEF ReadConfig, Making, CreationInv, CreationShape
<1>2. creating' = [creating EXCEPT !.stage = "prepare",
                                   !.config = FromTomlConfig(creating.toml)]
  BY DEF ReadConfig
<1>3. /\ DOMAIN creating' = CreationFields
      /\ creating'.stage = "prepare" /\ creating'.config = FromTomlConfig(creating.toml)
      /\ creating'.id = creating.id /\ creating'.toml = creating.toml
      /\ creating'.empty = creating.empty /\ creating'.next = creating.next
      /\ creating'.table = creating.table
  BY <1>1, <1>2 DEF CreationFields
<1>4. creating' # Nothing
  BY <1>3 DEF Nothing, CreationFields
<1>5. UNCHANGED <<filter, dirs, used, service, guest, request, argument, reply,
                  host, phase, ticker, due, timer>>
  BY DEF ReadConfig, replVars
<1>6. Typed' /\ Requests'
  BY <1>1, <1>4, <1>5 DEF Typed, Requests
<1>7. CreationShape'
  BY <1>1, <1>3, <1>5 DEF CreationInv, CreationShape
<1>8. ConfigMade'
  <2> DEFINE toml == creating.toml
  <2>1. toml \in Configs /\ creating.next = 1
    BY <1>1 DEF CreationInv, CreationShape
  <2>2. ~creating.empty => toml.module # <<>>
    BY DEF ReadConfig, ConfigAccepted
  <2>3. /\ DOMAIN FromTomlConfig(toml) = {"modules_dir", "modules_config"}
        /\ FromTomlConfig(toml).modules_config =
                [i \in DOMAIN toml.module |-> FromTomlModule(toml.module[i])]
    BY DEF FromTomlConfig
  <2>4. \A i \in DOMAIN toml.module : ~(i < 1)
    <3>1. DOMAIN toml.module = 1..Len(toml.module)
      BY <2>1, ModulesOf
    <3> QED
      BY <3>1
  <2> HIDE DEF toml
  <2>5. \A i \in DOMAIN toml.module :
            FromTomlConfig(toml).modules_config[i] = FromTomlModule(toml.module[i])
    BY <2>3
  <2>6. FromTomlConfig(toml).modules_config =
            [i \in DOMAIN toml.module |-> FromTomlConfig(toml).modules_config[i]]
    BY <2>3
  <2> QED
    BY <1>3, <2>1, <2>2, <2>3, <2>4, <2>5, <2>6 DEF ConfigMade, toml
<1>9. TableMade'
  BY <1>1, <1>3 DEF CreationInv, TableMade
<1>10. LoadsNew'
  BY <1>1, <1>5 DEF LoadsNew
<1>11. ServiceInv'
  BY <1>5, ServiceSame
<1> QED
  BY <1>6, <1>7, <1>8, <1>9, <1>10, <1>11 DEF CreationInv

LEMMA PrepareStep ==
  ASSUME ReplInv, PrepareModule, UNCHANGED replVars
  PROVE  ReplInv'
<1> USE DEF ReplInv
<1> DEFINE toml == creating.toml
           n == creating.next
           m == toml.module[n]
           configs == creating.config.modules_config
<1>1. /\ creating # Nothing /\ DOMAIN creating = CreationFields
      /\ creating.stage = "prepare" /\ More
  BY DEF PrepareModule, Making, CreationInv, CreationShape
<1>2. /\ n \in DOMAIN toml.module
      /\ Current = FromTomlModule(m)
      /\ Prepared = Laid(creating.id, FromTomlModule(m).config)
  BY <1>1, CurrentIs
<1>3. /\ toml \in Configs /\ n \in 1..(Len(toml.module) + 1)
      /\ DOMAIN toml.module = 1..Len(toml.module) /\ Len(toml.module) \in Nat
      /\ m.name \in Names /\ WasiOK(m.wasi)
  BY <1>1, <1>2, ModulesOf DEF CreationInv, CreationShape
<1>4. /\ DOMAIN creating.config = {"modules_dir", "modules_config"}
      /\ configs = [i \in DOMAIN toml.module |-> configs[i]]
      /\ configs[n] = FromTomlModule(m)
  BY <1>1, <1>2 DEF CreationInv, ConfigMade, Current
<1>5. /\ DOMAIN creating' = CreationFields
      /\ creating'.stage = "prepare" /\ creating'.id = creating.id
      /\ creating'.toml = toml /\ creating'.empty = creating.empty
      /\ creating'.next = n + 1 /\ creating'.table = creating.table
      /\ creating'.config = [creating.config EXCEPT !.modules_config =
                                [configs EXCEPT ![n] = [configs[n] EXCEPT !.config = Prepared]]]
  BY <1>1 DEF PrepareModule, CreationFields
<1>6. creating' # Nothing
  BY <1>5 DEF Nothing, CreationFields
<1>7. /\ UNCHANGED <<filter, used, service, guest, request, argument, reply,
                     host, phase, ticker, due, timer>>
      /\ dirs' = dirs \cup NewDirs
  BY DEF PrepareModule, replVars
<1>8. /\ DirsOf(creating.id, m) = ToCreate(Prepared)
      /\ DirsOf(creating.id, m) \subseteq Seq(STRING) \ {<<>>}
  BY <1>2, <1>3, DirsArePaths DEF DirsOf
<1>9. NewDirs \subseteq Seq(STRING) /\ DirsOf(creating.id, m) \subseteq NewDirs \cup Files
  BY <1>8, Paths DEF NewDirs
<1>10. Typed' /\ Requests'
  BY <1>1, <1>6, <1>7, <1>9 DEF Typed, Requests
<1>11. CreationShape'
  <2>1. creating'.next \in 1..(Len(toml.module) + 1)
    BY <1>2, <1>3, <1>5
  <2> QED
    BY <1>1, <1>5, <1>7, <2>1 DEF CreationInv, CreationShape
<1>12. ConfigMade'
  <2>1. [configs[n] EXCEPT !.config = Prepared] = PreparedModule(creating.id, m)
    BY <1>2, <1>4 DEF PreparedModule, FromTomlModule
  <2>2. /\ DOMAIN creating'.config = {"modules_dir", "modules_config"}
        /\ creating'.config.modules_config =
                [configs EXCEPT ![n] = PreparedModule(creating.id, m)]
    BY <1>4, <1>5, <2>1
  <2>3. ~creating.empty => toml.module # <<>>
    BY <1>1 DEF CreationInv, ConfigMade
  <2>4. \A i \in DOMAIN toml.module :
            IF i < n
            THEN /\ configs[i] = PreparedModule(creating.id, toml.module[i])
                 /\ DirsOf(creating.id, toml.module[i]) \subseteq dirs \cup Files
            ELSE configs[i] = FromTomlModule(toml.module[i])
    BY <1>1 DEF CreationInv, ConfigMade
  <2> DEFINE after == creating'.config.modules_config
  <2>5. /\ after = [i \in DOMAIN toml.module |-> after[i]]
        /\ after[n] = PreparedModule(creating.id, m)
        /\ \A i \in DOMAIN toml.module \ {n} : after[i] = configs[i]
    BY <1>2, <1>4, <2>2
  <2> HIDE DEF after, configs, toml, n, m
  <2>6. \A i \in DOMAIN toml.module :
            IF i < n + 1
            THEN /\ after[i] = PreparedModule(creating.id, toml.module[i])
                 /\ DirsOf(creating.id, toml.module[i]) \subseteq dirs' \cup Files
            ELSE after[i] = FromTomlModule(toml.module[i])
    <3> SUFFICES ASSUME NEW i \in DOMAIN toml.module
                 PROVE  IF i < n + 1
                        THEN /\ after[i] = PreparedModule(creating.id, toml.module[i])
                             /\ DirsOf(creating.id, toml.module[i]) \subseteq dirs' \cup Files
                        ELSE after[i] = FromTomlModule(toml.module[i])
      OBVIOUS
    <3>1. CASE i = n
      <4>1. i < n + 1
        BY <1>3, <3>1
      <4> QED
        BY <1>7, <1>9, <2>5, <3>1, <4>1 DEF m
    <3>2. CASE i # n
      <4>1. i < n + 1 <=> i < n
        BY <1>3, <3>2
      <4> QED
        BY <1>7, <2>4, <2>5, <3>2, <4>1
    <3> QED
      BY <3>1, <3>2
  <2> QED
    BY <1>5, <2>2, <2>3, <2>5, <2>6 DEF ConfigMade, after, toml, n
<1>13. TableMade'
  BY <1>1, <1>5 DEF CreationInv, TableMade
<1>14. LoadsNew'
  BY <1>1, <1>7 DEF LoadsNew
<1>15. ServiceInv'
  BY <1>7, ServiceSame
<1> QED
  BY <1>10, <1>11, <1>12, <1>13, <1>14, <1>15 DEF CreationInv

LEMMA BinariesStep ==
  ASSUME ReplInv, ReadBinaries, UNCHANGED replVars
  PROVE  ReplInv'
<1> USE DEF ReplInv
<1> DEFINE toml == creating.toml
<1>1. /\ creating # Nothing /\ DOMAIN creating = CreationFields
      /\ creating.stage = "prepare" /\ ~More
  BY DEF ReadBinaries, Making, CreationInv, CreationShape
<1>2. /\ toml \in Configs /\ creating.next \in 1..(Len(toml.module) + 1)
      /\ DOMAIN toml.module = 1..Len(toml.module) /\ Len(toml.module) \in Nat
  BY <1>1, ModulesOf DEF CreationInv, CreationShape
<1>3. creating.next \notin DOMAIN toml.module
  BY <1>1, CurrentIs
<1>4. \A i \in DOMAIN toml.module : i < creating.next
  BY <1>2, <1>3
<1>5. /\ DOMAIN creating' = CreationFields
      /\ creating'.stage = "load" /\ creating'.id = creating.id
      /\ creating'.toml = toml /\ creating'.empty = creating.empty
      /\ creating'.next = 1 /\ creating'.table = creating.table
      /\ creating'.config = creating.config
  BY <1>1 DEF ReadBinaries, CreationFields
<1>6. creating' # Nothing
  BY <1>5 DEF Nothing, CreationFields
<1>7. UNCHANGED <<filter, dirs, used, service, guest, request, argument, reply,
                  host, phase, ticker, due, timer>>
  BY DEF ReadBinaries, replVars
<1>8. Typed' /\ Requests'
  BY <1>1, <1>6, <1>7 DEF Typed, Requests
<1>9. CreationShape'
  <2>1. 1 \in 1..(Len(toml.module) + 1)
    BY <1>2
  <2> QED
    BY <1>1, <1>5, <1>7, <2>1 DEF CreationInv, CreationShape
<1>10. ConfigMade'
  BY <1>1, <1>4, <1>5, <1>7 DEF CreationInv, ConfigMade
<1>11. TableMade'
  <2>1. DOMAIN creating.table = {}
    BY <1>1 DEF CreationInv, TableMade
  <2>2. 1..(1 - 1) = {}
    OBVIOUS
  <2> QED
    BY <1>5, <2>1, <2>2 DEF TableMade
<1>12. LoadsNew'
  BY <1>1, <1>7 DEF LoadsNew
<1>13. ServiceInv'
  BY <1>7, ServiceSame
<1> QED
  BY <1>8, <1>9, <1>10, <1>11, <1>12, <1>13 DEF CreationInv

LEMMA StartStep ==
  ASSUME ReplInv, StartModule, UNCHANGED replVars
  PROVE  ReplInv'
<1> USE DEF ReplInv
<1>1. creating # Nothing /\ creating.stage = "load" /\ More
  BY DEF StartModule, Making
<1>2. /\ creating.next \in DOMAIN creating.toml.module
      /\ Current.import_name = creating.toml.module[creating.next].name
  BY <1>1, CurrentIs
<1>3. creating.toml.module[creating.next].name \notin DOMAIN creating.table
  BY <1>2 DEF StartModule, Loadable
<1>4. /\ UNCHANGED <<filter, dirs, used, creating, service, request, argument, reply,
                     host, phase, ticker, due, timer>>
      /\ guest' = "running"
  BY DEF StartModule, replVars
<1>5. Typed' /\ Requests'
  BY <1>1, <1>4 DEF Typed, Requests
<1>6. LoadsNew'
  BY <1>1, <1>2, <1>3, <1>4 DEF LoadsNew
<1> QED
  BY <1>4, <1>5, <1>6, CreationSame, ServiceSame

LEMMA StartedStep ==
  ASSUME ReplInv, ModuleStarted, UNCHANGED replVars
  PROVE  ReplInv'
<1> USE DEF ReplInv
<1> DEFINE toml == creating.toml
           n == creating.next
           m == toml.module[n]
           built == BuiltFor(creating.id, m)
<1>1. /\ creating # Nothing /\ DOMAIN creating = CreationFields
      /\ creating.stage = "load" /\ request = "create" /\ guest = "running"
  BY DEF ModuleStarted, Making, CreationInv, CreationShape, Requests
<1>2. n \in DOMAIN toml.module /\ m.name \notin DOMAIN creating.table
  BY <1>1 DEF LoadsNew
<1>3. Current.import_name = m.name /\ Built = built
  BY <1>1, <1>2, CurrentIs
<1>4. /\ toml \in Configs /\ n \in 1..(Len(toml.module) + 1)
      /\ DOMAIN toml.module = 1..Len(toml.module) /\ Len(toml.module) \in Nat
  BY <1>1, ModulesOf DEF CreationInv, CreationShape
<1>5. /\ DOMAIN creating' = CreationFields
      /\ creating'.stage = "load" /\ creating'.id = creating.id
      /\ creating'.toml = toml /\ creating'.empty = creating.empty
      /\ creating'.next = n + 1 /\ creating'.config = creating.config
      /\ creating'.table = Inserted(creating.table, m.name, built)
  BY <1>1, <1>3 DEF ModuleStarted, CreationFields
<1>6. creating' # Nothing
  BY <1>5 DEF Nothing, CreationFields
<1>7. /\ UNCHANGED <<filter, dirs, used, service, request, argument, reply,
                     host, phase, ticker, due, timer>>
      /\ guest' = "none"
  BY DEF ModuleStarted, replVars
<1>8. Typed' /\ Requests'
  BY <1>1, <1>6, <1>7 DEF Typed, Requests
<1>9. CreationShape'
  <2>1. n + 1 \in 1..(Len(toml.module) + 1)
    BY <1>2, <1>4
  <2> QED
    BY <1>1, <1>5, <1>7, <2>1 DEF CreationInv, CreationShape
<1>10. ConfigMade'
  BY <1>1, <1>5, <1>7 DEF CreationInv, ConfigMade
<1>11. TableMade'
  <2>1. /\ DOMAIN creating.table = {toml.module[i].name : i \in 1..(n - 1)}
        /\ \A i \in 1..(n - 1) :
              creating.table[toml.module[i].name] = BuiltFor(creating.id, toml.module[i])
    BY <1>1 DEF CreationInv, TableMade
  <2>2. 1..((n + 1) - 1) = 1..(n - 1) \cup {n}
    BY <1>4
  <2> DEFINE after == Inserted(creating.table, m.name, built)
  <2>3. /\ DOMAIN after = DOMAIN creating.table \cup {m.name}
        /\ after[m.name] = built
        /\ \A k \in DOMAIN creating.table \ {m.name} : after[k] = creating.table[k]
    BY DEF Inserted
  <2> HIDE DEF after
  <2>4. DOMAIN after = {toml.module[i].name : i \in 1..((n + 1) - 1)}
    <3> HIDE DEF toml, n
    <3> QED
      BY <2>1, <2>2, <2>3 DEF m
  <2>5. \A i \in 1..((n + 1) - 1) :
            after[toml.module[i].name] = BuiltFor(creating.id, toml.module[i])
    <3> SUFFICES ASSUME NEW i \in 1..((n + 1) - 1)
                 PROVE  after[toml.module[i].name] = BuiltFor(creating.id, toml.module[i])
      OBVIOUS
    <3>1. CASE i = n
      BY <2>3, <3>1
    <3>2. CASE i \in 1..(n - 1)
      BY <1>2, <2>1, <2>3, <3>2
    <3> QED
      BY <2>2, <3>1, <3>2
  <2> QED
    BY <1>5, <1>7, <2>4, <2>5 DEF TableMade, BuiltFor, after
<1>12. LoadsNew'
  BY <1>7 DEF LoadsNew
<1>13. ServiceInv'
  BY <1>7, ServiceSame
<1> QED
  BY <1>8, <1>9, <1>10, <1>11, <1>12, <1>13 DEF CreationInv

LEMMA FailStep ==
  ASSUME ReplInv, CreationFailed
  PROVE  ReplInv'
<1> USE DEF ReplInv
<1>1. creating # Nothing /\ CreateFails
  BY DEF CreationFailed, ConfigRejected, CreateDirFails, BinaryMissing, ModuleRefused, Making
<1>2. request = "create" /\ timer = "off"
  BY <1>1 DEF Requests, Typed
<1>3. /\ UNCHANGED <<filter, dirs, used, service, host, ticker, timer>>
      /\ creating' = Nothing /\ request' = "none" /\ guest' = "none"
      /\ argument' = Absent /\ reply' = "failed"
      /\ phase' \in {"over", phase} /\ due' \in BOOLEAN
  BY <1>1 DEF CreationFailed, CreateFails, Reply
<1>4. Typed' /\ Requests' /\ LoadsNew'
  BY <1>2, <1>3 DEF Typed, Requests, LoadsNew
<1> QED
  BY <1>3, <1>4, CreationOver, ServiceSame

\* The service that a finished creation makes.
LEMMA PublishedIs ==
  ASSUME ReplInv, Publish
  PROVE  /\ creating # Nothing /\ creating' = Nothing
         /\ service' = [id |-> creating.id,
                        facade |-> IF creating.empty THEN "" ELSE FacadeOf(creating.config),
                        toml |-> creating.toml, modules |-> creating.table, unloaded |-> {}]
         /\ creating.id \in used /\ creating.toml \in Configs
         /\ creating.empty = (host = "repl")
         /\ DOMAIN creating.table =
                {creating.toml.module[i].name : i \in DOMAIN creating.toml.module}
         /\ \A i \in DOMAIN creating.toml.module :
                creating.table[creating.toml.module[i].name] =
                    BuiltFor(creating.id, creating.toml.module[i])
         /\ ~creating.empty => FacadeOf(creating.config) \in DOMAIN creating.table
<1> USE DEF ReplInv
<1> DEFINE toml == creating.toml
           n == Len(toml.module)
<1>1. creating # Nothing /\ creating.stage = "load" /\ ~More
  BY DEF Publish, Making
<1>2. /\ toml \in Configs /\ creating.next \in 1..(n + 1)
      /\ DOMAIN toml.module = 1..n /\ n \in Nat
      /\ creating.id \in used /\ creating.empty = (host = "repl")
  BY <1>1, ModulesOf DEF CreationInv, CreationShape
<1>3. creating.next \notin DOMAIN toml.module
  BY <1>1, CurrentIs
<1>4. 1..(creating.next - 1) = DOMAIN toml.module
  <2>1. creating.next = n + 1
    BY <1>2, <1>3
  <2>2. creating.next - 1 = n
    BY <1>2, <2>1
  <2> QED
    BY <1>2, <2>2
<1>5. /\ DOMAIN creating.table = {toml.module[i].name : i \in DOMAIN toml.module}
      /\ \A i \in DOMAIN toml.module :
            creating.table[toml.module[i].name] = BuiltFor(creating.id, toml.module[i])
  BY <1>1, <1>4 DEF CreationInv, TableMade
<1>6. ASSUME ~creating.empty
      PROVE  FacadeOf(creating.config) \in DOMAIN creating.table
  <2> DEFINE configs == creating.config.modules_config
  <2>1. /\ toml.module # <<>>
        /\ configs = [i \in DOMAIN toml.module |-> configs[i]]
        /\ \A i \in DOMAIN toml.module : configs[i] = PreparedModule(creating.id, toml.module[i])
    BY <1>1, <1>6 DEF CreationInv, ConfigMade
  <2>2. toml.module \in Seq(Range(toml.module))
    BY <1>2, ModulesOf
  <2>3. n \in DOMAIN toml.module
    BY <1>2, <2>1, <2>2
  <2>4. Len(configs) = n
    <3> HIDE DEF configs
    <3>1. configs = [i \in 1..n |-> configs[i]]
      BY <1>2, <2>1
    <3>2. configs \in Seq({configs[i] : i \in 1..n})
      BY <1>2, <3>1
    <3>3. DOMAIN configs = 1..n
      BY <3>1
    <3> QED
      BY <1>2, <3>2, <3>3
  <2>5. FacadeOf(creating.config) = PreparedModule(creating.id, toml.module[n]).import_name
    BY <2>1, <2>3, <2>4 DEF FacadeOf, Last
  <2>6. FacadeOf(creating.config) = toml.module[n].name
    BY <2>5 DEF PreparedModule, FromTomlModule
  <2> QED
    BY <1>5, <2>3, <2>6
<1>7. /\ creating' = Nothing
      /\ service' = [id |-> creating.id,
                     facade |-> IF creating.empty THEN "" ELSE FacadeOf(creating.config),
                     toml |-> creating.toml, modules |-> creating.table, unloaded |-> {}]
  BY DEF Publish
<1> QED
  BY <1>1, <1>2, <1>5, <1>6, <1>7

LEMMA PublishStep ==
  ASSUME ReplInv, ServiceCreated
  PROVE  ReplInv'
<1> USE DEF ReplInv
<1>1. Publish
  BY DEF ServiceCreated
<1> DEFINE toml == creating.toml
<1>2. request = "create" /\ timer = "off"
  BY <1>1, PublishedIs DEF Requests, Typed
<1>3. /\ UNCHANGED <<filter, dirs, used, host, due, timer>>
      /\ creating' = Nothing /\ request' = "none" /\ guest' = "none"
      /\ argument' = Absent /\ reply' = "ok" /\ phase' = "ready" /\ ticker' \in BOOLEAN
  BY DEF ServiceCreated, Publish, Reply
<1>4. Typed' /\ Requests' /\ LoadsNew'
  BY <1>2, <1>3 DEF Typed, Requests, LoadsNew
<1>5. /\ DOMAIN service' = ServiceFields
      /\ service'.id = creating.id /\ service'.toml = toml
      /\ service'.facade = IF creating.empty THEN "" ELSE FacadeOf(creating.config)
      /\ service'.modules = creating.table /\ service'.unloaded = {}
  <2>1. service' = [id |-> creating.id,
                    facade |-> IF creating.empty THEN "" ELSE FacadeOf(creating.config),
                    toml |-> toml, modules |-> creating.table, unloaded |-> {}]
    BY <1>1 DEF Publish
  <2> QED
    BY <2>1 DEF ServiceFields
<1>6. /\ creating.id \in used /\ toml \in Configs
      /\ DOMAIN creating.table = {toml.module[i].name : i \in DOMAIN toml.module}
      /\ \A i \in DOMAIN toml.module :
            creating.table[toml.module[i].name] = BuiltFor(creating.id, toml.module[i])
  BY <1>1, PublishedIs
<1>7. ServiceShape'
  <2>1. \A i \in DOMAIN toml.module : toml.module[i].name \in Names
    BY <1>6, ModulesOf
  <2>2. DOMAIN service'.modules \subseteq Names
    <3>1. service'.modules = creating.table
      BY <1>5
    <3>2. DOMAIN creating.table = {toml.module[i].name : i \in DOMAIN toml.module}
      BY <1>6
    <3>3. DOMAIN creating.table \subseteq Names
      BY <2>1, <3>2
    <3> QED
      BY <3>1, <3>3
  <2>3. /\ DOMAIN service' = ServiceFields
        /\ service'.id \in used' /\ service'.toml \in Configs
    BY <1>3, <1>5, <1>6
  <2> QED
    BY <2>2, <2>3 DEF ServiceShape
<1>8. ServiceMade'
  BY <1>3, <1>5, <1>6 DEF ServiceMade, Standing, BuiltFor
<1>9. FacadeMade'
  BY <1>1, <1>3, <1>5, PublishedIs DEF FacadeMade
<1> QED
  BY <1>3, <1>4, <1>7, <1>8, <1>9, CreationOver DEF ServiceInv

------------------------------------------------------------------------------
(* The service afterwards. *)

LEMMA LoadEndsStep ==
  ASSUME ReplInv, LoadEnds, UNCHANGED replVars
  PROVE  ReplInv'
<1> USE DEF ReplInv
<1> DEFINE built == BuiltByHand(argument)
<1>1. /\ request = "load" /\ service # Nothing /\ argument \in Names
      /\ DOMAIN service = ServiceFields /\ creating = Nothing /\ timer = "off"
  BY DEF LoadEnds, Requests, ServiceInv, ServiceShape, Typed
<1>2. argument \notin DOMAIN service.modules
  BY DEF LoadEnds, Loadable
<1>3. /\ UNCHANGED <<filter, dirs, used, creating, host, phase, ticker, due, timer>>
      /\ request' = "none" /\ guest' = "none" /\ argument' = Absent /\ reply' = "ok"
  BY DEF LoadEnds, Reply, replVars
<1>4. /\ DOMAIN service' = ServiceFields
      /\ service'.id = service.id /\ service'.toml = service.toml
      /\ service'.facade = service.facade /\ service'.unloaded = service.unloaded
      /\ service'.modules = Inserted(service.modules, argument, built)
  BY <1>1 DEF LoadEnds, ServiceFields
<1>5. /\ DOMAIN service'.modules = DOMAIN service.modules \cup {argument}
      /\ \A k \in DOMAIN service.modules : service'.modules[k] = service.modules[k]
  BY <1>2, <1>4 DEF Inserted
<1>6. Typed' /\ Requests' /\ LoadsNew'
  BY <1>1, <1>3 DEF Typed, Requests, LoadsNew
<1>7. ServiceShape'
  BY <1>1, <1>3, <1>4, <1>5 DEF ServiceInv, ServiceShape
<1>8. ServiceMade'
  <2>1. Standing' = Standing
    BY <1>4 DEF Standing
  <2>2. \A m \in Standing : m.name \in DOMAIN service.modules
                          /\ service.modules[m.name] = BuiltFor(service.id, m)
    BY <1>1 DEF ServiceInv, ServiceMade
  <2> QED
    BY <1>3, <1>4, <1>5, <2>1, <2>2 DEF ServiceMade, BuiltFor
<1>9. FacadeMade'
  BY <1>1, <1>3, <1>4, <1>5 DEF ServiceInv, FacadeMade
<1> QED
  BY <1>1, <1>3, <1>6, <1>7, <1>8, <1>9, CreationOver DEF ServiceInv

LEMMA UnloadStep ==
  ASSUME ReplInv, NEW name \in Names, Unload(name)
  PROVE  ReplInv'
<1> USE DEF ReplInv
<1>1. /\ UNCHANGED <<filter, dirs, used, creating, guest, request, argument,
                     host, phase, ticker, due, timer>>
      /\ request = "none" /\ guest = "none" /\ service # Nothing /\ creating = Nothing
      /\ DOMAIN service = ServiceFields /\ timer = "off"
  BY DEF Unload, UnloadModule, Idle, replVars, Requests, Typed, ServiceInv, ServiceShape
<1>2. CASE name \notin DOMAIN service.modules
  <2>1. UNCHANGED service /\ reply' = "failed"
    BY <1>2 DEF Unload, UnloadModule
  <2>2. Typed' /\ Requests' /\ LoadsNew'
    BY <1>1, <2>1 DEF Typed, Requests, LoadsNew
  <2> QED
    BY <1>1, <2>1, <2>2, CreationOver, ServiceSame
<1>3. CASE name \in DOMAIN service.modules
  <2>1. /\ DOMAIN service' = ServiceFields
        /\ service'.id = service.id /\ service'.toml = service.toml
        /\ service'.facade = service.facade
        /\ service'.unloaded = service.unloaded \cup {name}
        /\ service'.modules = Restrict(service.modules, DOMAIN service.modules \ {name})
        /\ reply' = "ok"
    BY <1>1, <1>3 DEF Unload, UnloadModule, ServiceFields
  <2>2. /\ DOMAIN service'.modules = DOMAIN service.modules \ {name}
        /\ \A k \in DOMAIN service.modules \ {name} : service'.modules[k] = service.modules[k]
    BY <2>1 DEF Restrict
  <2>3. service' # Nothing
    BY <2>1 DEF ServiceFields, Nothing
  <2>4. Typed' /\ Requests' /\ LoadsNew'
    BY <1>1, <2>1, <2>3 DEF Typed, Requests, LoadsNew
  <2>5. ServiceShape'
    BY <1>1, <2>1, <2>2 DEF ServiceInv, ServiceShape
  <2>6. ServiceMade'
    <3>1. \A m \in Standing' : m \in Standing /\ m.name # name
      BY <2>1 DEF Standing
    <3>2. \A m \in Standing : m.name \in DOMAIN service.modules
                            /\ service.modules[m.name] = BuiltFor(service.id, m)
      BY <1>1 DEF ServiceInv, ServiceMade
    <3> QED
      BY <1>1, <2>1, <2>2, <3>1, <3>2 DEF ServiceMade, BuiltFor
  <2>7. FacadeMade'
    BY <1>1, <2>1, <2>2 DEF ServiceInv, FacadeMade
  <2> QED
    BY <1>1, <2>4, <2>5, <2>6, <2>7, CreationOver DEF ServiceInv
<1> QED
  BY <1>2, <1>3

------------------------------------------------------------------------------
(* Steps that leave every service as it is. *)

Quiet == UNCHANGED <<filter, dirs, used, creating, service, host>>

LEMMA QuietStep ==
  ASSUME ReplInv, Quiet, Typed', Requests', LoadsNew'
  PROVE  ReplInv'
<1>1. UNCHANGED <<creating, service, host, filter>> /\ used \subseteq used' /\ dirs \subseteq dirs'
  BY DEF Quiet
<1> QED
  BY <1>1, CreationSame, ServiceSame DEF ReplInv

\* A request begins.
LEMMA RequestStep ==
  ASSUME ReplInv, NEW n \in Names, Load(n) \/ Call(n)
  PROVE  ReplInv'
<1> USE DEF ReplInv
<1>1. CASE Load(n)
  <2>1. /\ Quiet /\ UNCHANGED <<phase, ticker, due, timer>>
        /\ service # Nothing /\ request = "none"
        /\ request' = "load" /\ argument' = n /\ guest' = "running" /\ reply' = "none"
    BY <1>1 DEF Load, LoadModule, Idle, replVars, Quiet
  <2>2. Typed' /\ Requests' /\ LoadsNew'
    BY <2>1 DEF Typed, Requests, LoadsNew, Quiet
  <2> QED
    BY <2>1, <2>2, QuietStep
<1>2. CASE Call(n)
  <2>1. /\ Quiet /\ UNCHANGED <<phase, ticker, due>>
        /\ service # Nothing /\ request = "none" /\ guest = "none"
        /\ timer' = IF host = "repl" /\ request' = "call" THEN "armed" ELSE "off"
    BY <1>2 DEF Call, CallModule, Idle, Quiet, Requests
  <2>2. \/ request' = "call" /\ argument' = n /\ guest' = "running" /\ reply' = "none"
        \/ reply' = "failed" /\ UNCHANGED <<guest, request, argument>>
    BY <1>2 DEF Call, CallModule
  <2>3. Typed' /\ Requests' /\ LoadsNew'
    BY <2>1, <2>2 DEF Typed, Requests, LoadsNew, Quiet
  <2> QED
    BY <2>1, <2>3, QuietStep
<1> QED
  BY <1>1, <1>2

\* A request is over at once, or there are no more.
LEMMA AtOnceStep ==
  ASSUME ReplInv, CallNotParsed \/ Interface \/ Quit
  PROVE  ReplInv'
<1> USE DEF ReplInv
<1>1. CASE CallNotParsed
  <2>1. /\ Quiet /\ UNCHANGED <<guest, request, argument, phase, ticker, due, timer>>
        /\ request = "none" /\ reply' = "refused"
    BY <1>1 DEF CallNotParsed, Idle, replVars, Quiet
  <2>2. Typed' /\ Requests' /\ LoadsNew'
    BY <2>1 DEF Typed, Requests, LoadsNew, Quiet
  <2> QED
    BY <2>1, <2>2, QuietStep
<1>2. CASE Interface
  <2>1. /\ Quiet /\ UNCHANGED <<guest, request, argument, phase, ticker, due, timer>>
        /\ request = "none" /\ service # Nothing /\ host = "peer"
        /\ reply' = IF service.facade \in DOMAIN service.modules THEN "ok" ELSE "panic"
    BY <1>2 DEF Interface, GetInterface, Idle, replVars, Quiet
  <2>2. Typed' /\ Requests' /\ LoadsNew'
    BY <2>1 DEF Typed, Requests, LoadsNew, Quiet
  <2> QED
    BY <2>1, <2>2, QuietStep
<1>3. CASE Quit
  <2>1. /\ Quiet /\ UNCHANGED <<guest, request, argument, reply, ticker, due, timer>>
        /\ phase' = "over"
    BY <1>3 DEF Quit, serviceVars, Quiet
  <2>2. Typed' /\ Requests' /\ LoadsNew'
    BY <2>1 DEF Typed, Requests, LoadsNew, Quiet
  <2> QED
    BY <2>1, <2>2, QuietStep
<1> QED
  BY <1>1, <1>2, <1>3

\* A request ends without a change to the service.
LEMMA ReplyStep ==
  ASSUME ReplInv, (LoadFails /\ UNCHANGED replVars) \/ CallReturns
  PROVE  ReplInv'
<1> USE DEF ReplInv
<1>1. CASE LoadFails /\ UNCHANGED replVars
  <2>1. /\ Quiet /\ UNCHANGED <<phase, ticker, due, timer>> /\ request = "load"
        /\ request' = "none" /\ guest' = "none" /\ argument' = Absent /\ reply' = "failed"
    BY <1>1 DEF LoadFails, Reply, replVars, Quiet
  <2>2. Typed' /\ Requests' /\ LoadsNew'
    BY <2>1 DEF Typed, Requests, LoadsNew, Quiet
  <2> QED
    BY <2>1, <2>2, QuietStep
<1>2. CASE CallReturns
  <2>1. /\ Quiet /\ UNCHANGED <<phase, ticker, due>> /\ request = "call" /\ timer' = "off"
        /\ request' = "none" /\ guest' = "none" /\ argument' = Absent
        /\ reply' \in {"ok", "failed"}
    BY <1>2 DEF CallReturns, CallEnds, Reply, Quiet
  <2>2. Typed' /\ Requests' /\ LoadsNew'
    BY <2>1 DEF Typed, Requests, LoadsNew, Quiet
  <2> QED
    BY <2>1, <2>2, QuietStep
<1> QED
  BY <1>1, <1>2

\* Time passes.
LEMMA TimeStep ==
  ASSUME ReplInv, Tick \/ TimerElapses \/ GuestYields \/ GuestResumes \/ GuestWaits
  PROVE  ReplInv'
<1> USE DEF ReplInv
<1>1. CASE Tick \/ TimerElapses
  <2>1. /\ Quiet /\ UNCHANGED <<guest, request, argument, reply, phase, ticker>>
        /\ due' \in BOOLEAN
        /\ timer' = timer \/ (timer = "armed" /\ timer' = "elapsed")
    BY <1>1 DEF Tick, TimerElapses, serviceVars, Quiet, Typed
  <2>2. Typed' /\ Requests' /\ LoadsNew'
    BY <2>1 DEF Typed, Requests, LoadsNew, Quiet
  <2> QED
    BY <2>1, <2>2, QuietStep
<1>2. CASE GuestYields /\ timer = "elapsed"
  <2>1. /\ Quiet /\ UNCHANGED <<phase, ticker, due>> /\ timer' = "off" /\ request = "call"
        /\ request' = "none" /\ guest' = "none" /\ argument' = Absent /\ reply' = "interrupted"
    BY <1>2 DEF GuestYields, Reply, Quiet, Requests
  <2>2. Typed' /\ Requests' /\ LoadsNew'
    BY <2>1 DEF Typed, Requests, LoadsNew, Quiet
  <2> QED
    BY <2>1, <2>2, QuietStep
<1>3. CASE (GuestYields /\ timer # "elapsed") \/ GuestResumes \/ GuestWaits
  <2>1. /\ Quiet /\ UNCHANGED <<request, argument, reply, phase, ticker, timer>>
        /\ guest # "none" /\ guest' \in {"running", "yielded", "binary"}
        /\ due' \in BOOLEAN
    BY <1>3 DEF GuestYields, GuestResumes, GuestWaits, RunBinary, BinaryEnds, replVars, Quiet,
                Typed
  <2>2. Typed' /\ Requests' /\ LoadsNew'
    BY <2>1 DEF Typed, Requests, LoadsNew, Quiet
  <2> QED
    BY <2>1, <2>2, QuietStep
<1> QED
  BY <1>1, <1>2, <1>3

LEMMA StutterStep ==
  ASSUME ReplInv, UNCHANGED vars
  PROVE  ReplInv'
<1>1. Quiet /\ UNCHANGED <<guest, request, argument, reply, phase, ticker, due, timer>>
  BY DEF vars, serviceVars, replVars, Quiet
<1>2. Typed' /\ Requests' /\ LoadsNew'
  BY <1>1 DEF ReplInv, Typed, Requests, LoadsNew, Quiet
<1> QED
  BY <1>1, <1>2, QuietStep

------------------------------------------------------------------------------
(* The theorems. *)

LEMMA InitialInv == Init => ReplInv
<1> SUFFICES ASSUME Init PROVE ReplInv
  OBVIOUS
<1> USE DEF Init, ServiceInit
<1>1. Ancestors(BasePath) \subseteq Seq(STRING)
  BY PathsAssumption, Paths
<1>2. Typed /\ Requests /\ LoadsNew
  BY <1>1 DEF Typed, Requests, LoadsNew
<1>3. CreationInv
  BY DEF CreationInv, CreationShape, ConfigMade, TableMade
<1>4. ServiceInv
  BY DEF ServiceInv, ServiceShape, ServiceMade, FacadeMade
<1> QED
  BY <1>2, <1>3, <1>4 DEF ReplInv

\* The invariant behind all the others: how far a creation has come, and
\* what a service was built with, hold together at every step.
THEOREM ReplCorrect == Spec => []ReplInv
<1>1. ReplInv /\ [Next]_vars => ReplInv'
  <2> SUFFICES ASSUME ReplInv, [Next]_vars PROVE ReplInv'
    OBVIOUS
  <2>1. ASSUME NEW c \in Configs, NEW i \in ServiceIds, NewService(c, i) PROVE ReplInv'
    BY <2>1, BeginStep
  <2>2. CASE Creating
    BY <2>2, ReadStep, PrepareStep, BinariesStep, StartStep, StartedStep DEF Creating
  <2>3. CASE ServiceCreated
    BY <2>3, PublishStep
  <2>4. CASE CreationFailed
    BY <2>4, FailStep
  <2>5. ASSUME NEW n \in Names, Load(n) \/ Call(n) PROVE ReplInv'
    BY <2>5, RequestStep
  <2>6. ASSUME NEW n \in Names, Unload(n) PROVE ReplInv'
    BY <2>6, UnloadStep
  <2>7. CASE Loading
    BY <2>7, ReplyStep, LoadEndsStep DEF Loading
  <2>8. CASE CallNotParsed \/ Interface \/ Quit
    BY <2>8, AtOnceStep
  <2>9. CASE CallReturns
    BY <2>9, ReplyStep
  <2>10. CASE Tick \/ TimerElapses \/ GuestYields \/ GuestResumes \/ GuestWaits
    BY <2>10, TimeStep
  <2>11. CASE UNCHANGED vars
    BY <2>11, StutterStep
  <2> QED
    BY <2>1, <2>2, <2>3, <2>4, <2>5, <2>6, <2>7, <2>8, <2>9, <2>10, <2>11 DEF Next
<1> QED
  BY <1>1, InitialInv, PTL DEF Spec

\* The variables keep their types, and guest code runs only for a request.
THEOREM ReplTypeCorrect == Spec => []ReplTypeOK
<1>1. ReplInv => ReplTypeOK
  <2> SUFFICES ASSUME ReplInv PROVE ReplTypeOK
    OBVIOUS
  <2> USE DEF ReplInv
  <2>1. ASSUME creating # Nothing
        PROVE  /\ creating.stage \in {"read", "prepare", "load"}
               /\ DOMAIN creating.table \subseteq Names
               /\ creating.next \in 1..(Len(creating.toml.module) + 1)
    <3>1. /\ creating.stage \in {"read", "prepare", "load"} /\ creating.toml \in Configs
          /\ creating.next \in 1..(Len(creating.toml.module) + 1)
      BY <2>1 DEF CreationInv, CreationShape
    <3>2. /\ Len(creating.toml.module) \in Nat
          /\ DOMAIN creating.toml.module = 1..Len(creating.toml.module)
          /\ \A i \in DOMAIN creating.toml.module : creating.toml.module[i].name \in Names
      BY <3>1, ModulesOf
    <3>3. 1..(creating.next - 1) \subseteq DOMAIN creating.toml.module
      BY <3>1, <3>2
    <3>4. DOMAIN creating.table \subseteq Names
      BY <2>1, <3>2, <3>3 DEF CreationInv, TableMade
    <3> QED
      BY <3>1, <3>4
  <2>2. service # Nothing => service.id \in used /\ DOMAIN service.modules \subseteq Names
    BY DEF ServiceInv, ServiceShape
  <2> QED
    BY <2>1, <2>2 DEF Typed, Requests, ReplTypeOK
<1> QED
  BY <1>1, ReplCorrect, PTL

\* A service has every module of its configuration that nobody unloaded,
\* whatever failed on the way to it and since.
THEOREM CompleteCorrect == Spec => []ServiceComplete
<1>1. ReplInv => ServiceComplete
  BY DEF ReplInv, ServiceInv, ServiceMade, ServiceComplete
<1> QED
  BY <1>1, ReplCorrect, PTL

\* The modules of a service see its own identifier and what its creator
\* passed, and find their directories where the service keeps them.
THEOREM OwnEnvironmentCorrect == Spec => []OwnEnvironment
<1>1. ReplInv => OwnEnvironment
  <2> SUFFICES ASSUME ReplInv, service # Nothing, NEW m \in Standing
               PROVE  OwnEnvironmentAs(service.id, m, service.modules[m.name])
    BY DEF OwnEnvironment, OwnEnvironmentAs, Aliases
  <2>1. service.modules[m.name] = BuiltFor(service.id, m)
    BY DEF ReplInv, ServiceInv, ServiceMade
  <2>2. service.toml \in Configs
    BY DEF ReplInv, ServiceInv, ServiceShape
  <2>3. WasiOK(m.wasi)
    BY <2>2, ModulesOf DEF Standing
  <2> QED
    BY <2>1, <2>3, OwnEnvironmentOf
<1> QED
  BY <1>1, ReplCorrect, PTL

\* When the first module is loaded, every directory of every module exists,
\* or is a file.
THEOREM DirsCorrect == Spec => []DirsMade
<1>1. ReplInv => DirsMade
  <2> SUFFICES ASSUME ReplInv, Making("load"), NEW i \in DOMAIN creating.config.modules_config
               PROVE  ToCreate(creating.config.modules_config[i].config) \subseteq dirs \cup Files
    BY DEF DirsMade
  <2> DEFINE m == creating.toml.module[i]
             made == creating.config.modules_config[i]
  <2>1. /\ made = PreparedModule(creating.id, m)
        /\ DirsOf(creating.id, m) \subseteq dirs \cup Files
    BY DEF ReplInv, CreationInv, ConfigMade, Making
  <2>2. made.config = Laid(creating.id, FromTomlModule(m).config)
    BY <2>1 DEF PreparedModule, FromTomlModule
  <2> QED
    BY <2>1, <2>2 DEF DirsOf
<1> QED
  BY <1>1, ReplCorrect, PTL

\* A service that was created with a facade has it until somebody unloads
\* it, so that only then get_interface has none to unwrap.
THEOREM FacadeCorrect == Spec => []FacadeStands
<1>1. ReplInv => FacadeStands
  BY DEF ReplInv, ServiceInv, FacadeMade, Requests, FacadeStands
<1> QED
  BY <1>1, ReplCorrect, PTL

\* A service gives way only to a complete one, and apart from that changes
\* by one module at a time.
THEOREM ReplacedWholeCorrect == Spec => ReplacedWhole
<1> DEFINE whole ==
        service' # service =>
            \/ /\ creating # Nothing /\ creating' = Nothing /\ service' # Nothing
               /\ service'.id = creating.id
               /\ DOMAIN service'.modules =
                    {creating.toml.module[i].name : i \in DOMAIN creating.toml.module}
            \/ /\ service # Nothing /\ service' # Nothing
               /\ service'.id = service.id
               /\ \E n \in Names :
                    DOMAIN service'.modules \in
                        {DOMAIN service.modules \cup {n}, DOMAIN service.modules \ {n}}
<1>1. ReplInv /\ [Next]_vars => [whole]_vars
  <2> SUFFICES ASSUME ReplInv, Next, service' # service PROVE whole
    OBVIOUS
  <2>1. CASE ServiceCreated
    <3>1. Publish
      BY <2>1 DEF ServiceCreated
    <3>2. service' = [id |-> creating.id,
                      facade |-> IF creating.empty THEN "" ELSE FacadeOf(creating.config),
                      toml |-> creating.toml, modules |-> creating.table, unloaded |-> {}]
      BY <3>1 DEF Publish
    <3>3. /\ service' # Nothing /\ service'.id = creating.id
          /\ service'.modules = creating.table
      BY <3>2 DEF Nothing
    <3>4. /\ creating # Nothing /\ creating' = Nothing
          /\ DOMAIN creating.table =
                {creating.toml.module[i].name : i \in DOMAIN creating.toml.module}
      BY <3>1, PublishedIs
    <3> QED
      BY <3>3, <3>4
  <2>2. CASE LoadEnds
    <3>1. /\ service # Nothing /\ argument \in Names /\ DOMAIN service = ServiceFields
      BY <2>2 DEF LoadEnds, ReplInv, Requests, ServiceInv, ServiceShape
    <3>2. /\ DOMAIN service' = ServiceFields /\ service'.id = service.id
          /\ service'.modules = Inserted(service.modules, argument, BuiltByHand(argument))
      BY <2>2, <3>1 DEF LoadEnds, ServiceFields
    <3>3. DOMAIN service'.modules = DOMAIN service.modules \cup {argument}
      BY <3>2 DEF Inserted
    <3> QED
      BY <3>1, <3>2, <3>3 DEF ServiceFields, Nothing
  <2>3. ASSUME NEW n \in Names, Unload(n) PROVE whole
    <3>1. /\ service # Nothing /\ DOMAIN service = ServiceFields
      BY <2>3 DEF Unload, UnloadModule, ReplInv, ServiceInv, ServiceShape
    <3>2. /\ DOMAIN service' = ServiceFields /\ service'.id = service.id
          /\ service'.modules = Restrict(service.modules, DOMAIN service.modules \ {n})
      BY <2>3, <3>1 DEF Unload, UnloadModule, ServiceFields
    <3>3. DOMAIN service'.modules = DOMAIN service.modules \ {n}
      BY <3>2 DEF Restrict
    <3>4. service' # Nothing
      BY <3>2 DEF ServiceFields, Nothing
    <3>5. \E k \in Names :
            DOMAIN service'.modules \in
                {DOMAIN service.modules \cup {k}, DOMAIN service.modules \ {k}}
      BY <3>3
    <3> QED
      BY <3>1, <3>2, <3>4, <3>5
  <2>4. \/ ServiceCreated \/ LoadEnds
        \/ \E n \in Names : Unload(n)
        \/ UNCHANGED service
    BY DEF Next, NewService, BeginCreate, Creating, ReadConfig, PrepareModule, ReadBinaries,
           StartModule, ModuleStarted, CreationFailed, ConfigRejected, CreateDirFails,
           BinaryMissing, ModuleRefused, CreateFails, Load, LoadModule, Call, CallModule,
           Loading, LoadFails, CallNotParsed, CallReturns, CallEnds, Interface, GetInterface,
           Quit, Tick, TimerElapses, GuestYields, GuestResumes, GuestWaits, RunBinary,
           BinaryEnds, serviceVars
  <2> QED
    BY <2>1, <2>2, <2>3, <2>4
<1> QED
  BY <1>1, ReplCorrect, PTL DEF Spec, ReplacedWhole

------------------------------------------------------------------------------
(* The levels of WASM_LOG.                                                 *)

\* f takes the first n directives, one by one.
Filtered(f, directives, n) ==
    /\ DOMAIN f = 0..n
    /\ f[0] = EmptyFilter
    /\ \A i \in 1..n : f[i] = AddDirective(f[i - 1], directives[i])

LEMMA FilteredExists ==
  ASSUME NEW directives
  PROVE  \A n \in Nat : \E f : Filtered(f, directives, n)
<1> DEFINE S == {n \in Nat : \E f : Filtered(f, directives, n)}
<1>1. 0 \in S
  <2>1. Filtered([i \in 0..0 |-> EmptyFilter], directives, 0)
    BY DEF Filtered
  <2> QED
    BY <2>1
<1>2. ASSUME NEW n \in Nat, n \in S PROVE n + 1 \in S
  <2>1. PICK f : Filtered(f, directives, n)
    BY <1>2
  <2> DEFINE g == [i \in 0..(n + 1) |->
                      IF i \in 0..n THEN f[i] ELSE AddDirective(f[n], directives[n + 1])]
  <2>2. /\ DOMAIN g = 0..(n + 1)
        /\ \A i \in 0..n : g[i] = f[i]
        /\ g[n + 1] = AddDirective(f[n], directives[n + 1])
    <3>1. n + 1 \in 0..(n + 1) /\ n + 1 \notin 0..n /\ 0..n \subseteq 0..(n + 1)
      OBVIOUS
    <3> QED
      BY <3>1
  <2> HIDE DEF g
  <2>3. ASSUME NEW i \in 1..(n + 1) PROVE g[i] = AddDirective(g[i - 1], directives[i])
    <3>1. CASE i = n + 1
      <4>1. n \in 0..n /\ i - 1 = n
        BY <3>1
      <4> QED
        BY <2>2, <3>1, <4>1
    <3>2. CASE i # n + 1
      <4>1. i \in 1..n /\ i \in 0..n /\ i - 1 \in 0..n
        BY <3>2
      <4> QED
        BY <2>1, <2>2, <4>1 DEF Filtered
    <3> QED
      BY <3>1, <3>2
  <2>4. g[0] = EmptyFilter
    BY <2>1, <2>2 DEF Filtered
  <2>5. Filtered(g, directives, n + 1)
    BY <2>2, <2>3, <2>4 DEF Filtered
  <2> QED
    BY <2>5
<1> HIDE DEF S
<1>3. \A n \in Nat : n \in S
  BY <1>1, <1>2, Induction
<1> QED
  BY <1>3 DEF S

LEMMA FromEnvStringIs ==
  ASSUME NEW directives, Len(directives) \in Nat
  PROVE  \E f : /\ Filtered(f, directives, Len(directives))
                /\ FromEnvString(directives) = f[Len(directives)]
<1> DEFINE n == Len(directives)
           P(f) == f = [i \in 0..n |-> IF i = 0 THEN EmptyFilter
                                       ELSE AddDirective(f[i - 1], directives[i])]
<1>1. PICK g : Filtered(g, directives, n)
  BY FilteredExists
<1>2. P(g)
  <2>1. ASSUME NEW i \in 0..n
        PROVE  g[i] = IF i = 0 THEN EmptyFilter ELSE AddDirective(g[i - 1], directives[i])
    <3>1. CASE i = 0
      BY <1>1, <3>1 DEF Filtered
    <3>2. CASE i # 0
      <4>1. i \in 1..n
        BY <3>2
      <4> QED
        BY <1>1, <3>2, <4>1 DEF Filtered
    <3> QED
      BY <3>1, <3>2
  <2>2. g = [i \in 0..n |-> g[i]]
    BY <1>1 DEF Filtered
  <2> QED
    BY <2>1, <2>2
<1>3. P(CHOOSE f : P(f))
  BY <1>2
<1>4. FromEnvString(directives) = (CHOOSE f : P(f))[n]
  BY DEF FromEnvString
<1> DEFINE c == CHOOSE f : P(f)
<1>5. P(c)
  BY <1>3
<1> HIDE DEF c
<1>6. Filtered(c, directives, n)
  <2>1. 0 \in 0..n /\ \A i \in 1..n : i \in 0..n /\ i # 0
    OBVIOUS
  <2> QED
    BY <1>5, <2>1 DEF Filtered
<1> QED
  BY <1>4, <1>6 DEF c

LEMMA DirectiveIs ==
  ASSUME NEW d,
         d.shape \in {"name", "name=", "name=level"} => d.name # Absent,
         d.shape \in {"level", "name=level"} => d.level \in Levels,
         Directive(d) # Nothing
  PROVE  Directive(d).level \in Levels
<1>1. CASE d.shape = "level"
  BY <1>1 DEF Directive
<1>2. CASE d.shape \in {"name", "name="}
  BY <1>2 DEF Directive, Levels
<1>3. CASE d.shape = "name=level"
  BY <1>3 DEF Directive
<1>4. CASE d.shape \notin {"level", "name", "name=", "name=level"}
  BY <1>4 DEF Directive
<1> QED
  BY <1>1, <1>2, <1>3, <1>4

\* What one directive more changes.
LEMMA AddDirectiveIs ==
  ASSUME NEW f, NEW d, DOMAIN f = {"default_log_level", "module_levels"}
  PROVE  LET parsed == Directive(d)
             more == AddDirective(f, d)
         IN  /\ DOMAIN more = {"default_log_level", "module_levels"}
             /\ parsed = Nothing => more = f
             /\ parsed # Nothing /\ parsed.name # Absent =>
                    /\ more.default_log_level = f.default_log_level
                    /\ more.module_levels = Inserted(f.module_levels, parsed.name, parsed.level)
             /\ parsed # Nothing /\ parsed.name = Absent =>
                    /\ more.module_levels = f.module_levels
                    /\ more.default_log_level =
                         IF f.default_log_level # Absent THEN f.default_log_level ELSE parsed.level
<1> DEFINE parsed == Directive(d)
<1> HIDE DEF parsed
<1>1. CASE parsed = Nothing
  <2>1. AddDirective(f, d) = f
    BY <1>1 DEF AddDirective, parsed
  <2> QED
    BY <1>1, <2>1 DEF parsed
<1>2. CASE parsed # Nothing /\ parsed.name # Absent
  <2>1. AddDirective(f, d) =
            [f EXCEPT !.module_levels = Inserted(@, parsed.name, parsed.level)]
    BY <1>2 DEF AddDirective, parsed
  <2> QED
    BY <1>2, <2>1 DEF parsed
<1>3. CASE parsed # Nothing /\ parsed.name = Absent /\ f.default_log_level # Absent
  <2>1. AddDirective(f, d) = f
    BY <1>3 DEF AddDirective, parsed
  <2> QED
    BY <1>3, <2>1 DEF parsed
<1>4. CASE parsed # Nothing /\ parsed.name = Absent /\ f.default_log_level = Absent
  <2>1. AddDirective(f, d) = [f EXCEPT !.default_log_level = parsed.level]
    BY <1>4 DEF AddDirective, parsed
  <2> QED
    BY <1>4, <2>1 DEF parsed
<1> QED
  BY <1>1, <1>2, <1>3, <1>4

\* The directives among the first k that count for n, which is the name of
\* a module, or Absent for those that name none.
CountFor(directives, n, k) ==
    {i \in 1..k : Directive(directives[i]) # Nothing /\ Directive(directives[i]).name = n}

LevelOf(directives, i) == Directive(directives[i]).level

\* What the first k of them have made of the filter.
LevelsSoFar(f, directives, n, k) ==
    LET named    == CountFor(directives, n, k)
        defaults == CountFor(directives, Absent, k)
    IN  /\ DOMAIN f = {"default_log_level", "module_levels"}
        /\ named = {} => n \notin DOMAIN f.module_levels
        /\ \A i \in named : (\A j \in named : j <= i) =>
                /\ n \in DOMAIN f.module_levels
                /\ f.module_levels[n] = LevelOf(directives, i)
        /\ defaults = {} => f.default_log_level = Absent
        /\ \A i \in defaults : (\A j \in defaults : i <= j) =>
                f.default_log_level = LevelOf(directives, i)

LEMMA CountForMore ==
  ASSUME NEW directives, NEW n, NEW k \in Nat
  PROVE  CountFor(directives, n, k + 1) =
            CountFor(directives, n, k) \cup
                (IF Directive(directives[k + 1]) # Nothing /\ Directive(directives[k + 1]).name = n
                 THEN {k + 1} ELSE {})
<1>1. 1..(k + 1) = (1..k) \cup {k + 1}
  OBVIOUS
<1> QED
  BY <1>1 DEF CountFor

LEMMA LevelsStep ==
  ASSUME NEW directives, NEW n, n # Absent, NEW k \in Nat, NEW f, NEW g,
         Absent \notin Levels,
         \A i \in 1..(k + 1) :
            Directive(directives[i]) # Nothing => LevelOf(directives, i) \in Levels,
         LevelsSoFar(f, directives, n, k), g = AddDirective(f, directives[k + 1])
  PROVE  LevelsSoFar(g, directives, n, k + 1)
<1> DEFINE parsed == Directive(directives[k + 1])
           named == CountFor(directives, n, k)
           defaults == CountFor(directives, Absent, k)
           named1 == CountFor(directives, n, k + 1)
           defaults1 == CountFor(directives, Absent, k + 1)
<1>1. /\ \A i \in named \cup defaults : i \in Nat /\ i <= k /\ LevelOf(directives, i) \in Levels
      /\ k + 1 \in Nat /\ ~(k + 1 <= k)
  BY DEF CountFor
<1>2. /\ DOMAIN f = {"default_log_level", "module_levels"}
      /\ named = {} => n \notin DOMAIN f.module_levels
      /\ \A i \in named : (\A j \in named : j <= i) =>
              /\ n \in DOMAIN f.module_levels
              /\ f.module_levels[n] = LevelOf(directives, i)
      /\ defaults = {} => f.default_log_level = Absent
      /\ \A i \in defaults : (\A j \in defaults : i <= j) =>
              f.default_log_level = LevelOf(directives, i)
  BY DEF LevelsSoFar
<1>3. /\ DOMAIN g = {"default_log_level", "module_levels"}
      /\ parsed = Nothing => g = f
      /\ parsed # Nothing /\ parsed.name # Absent =>
              /\ g.default_log_level = f.default_log_level
              /\ g.module_levels = Inserted(f.module_levels, parsed.name, parsed.level)
      /\ parsed # Nothing /\ parsed.name = Absent =>
              /\ g.module_levels = f.module_levels
              /\ g.default_log_level =
                   IF f.default_log_level # Absent THEN f.default_log_level ELSE parsed.level
  BY <1>2, AddDirectiveIs
<1>4. /\ named1 = named \cup (IF parsed # Nothing /\ parsed.name = n THEN {k + 1} ELSE {})
      /\ defaults1 = defaults \cup
            (IF parsed # Nothing /\ parsed.name = Absent THEN {k + 1} ELSE {})
  BY CountForMore
<1>5. LevelOf(directives, k + 1) = parsed.level
  BY DEF LevelOf
<1>6. Inserted(f.module_levels, parsed.name, parsed.level) =
        [m \in DOMAIN f.module_levels \cup {parsed.name} |->
            IF m = parsed.name THEN parsed.level ELSE f.module_levels[m]]
  BY DEF Inserted
<1>7. defaults # {} => \E i \in defaults : \A j \in defaults : i <= j
  BY <1>1, Least
<1> HIDE DEF parsed, named, defaults, named1, defaults1
<1>8. /\ named1 = {} => n \notin DOMAIN g.module_levels
      /\ \A i \in named1 : (\A j \in named1 : j <= i) =>
              /\ n \in DOMAIN g.module_levels
              /\ g.module_levels[n] = LevelOf(directives, i)
  <2>1. CASE parsed # Nothing /\ parsed.name = n
    <3>1. /\ n \in DOMAIN g.module_levels /\ g.module_levels[n] = parsed.level
          /\ named1 = named \cup {k + 1}
      BY <1>3, <1>4, <1>6, <2>1
    <3>2. ASSUME NEW i \in named1, \A j \in named1 : j <= i PROVE i = k + 1
      BY <1>1, <3>1, <3>2
    <3> QED
      BY <1>5, <3>1, <3>2
  <2>2. CASE ~(parsed # Nothing /\ parsed.name = n)
    <3>1. named1 = named
      BY <1>4, <2>2
    <3>2. /\ n \in DOMAIN g.module_levels <=> n \in DOMAIN f.module_levels
          /\ n \in DOMAIN g.module_levels => g.module_levels[n] = f.module_levels[n]
      <4>1. CASE parsed = Nothing \/ parsed.name = Absent
        BY <1>3, <4>1
      <4>2. CASE parsed # Nothing /\ parsed.name # Absent
        BY <1>3, <1>6, <2>2, <4>2
      <4> QED
        BY <4>1, <4>2
    <3> QED
      BY <1>2, <3>1, <3>2
  <2> QED
    BY <2>1, <2>2
<1>9. /\ defaults1 = {} => g.default_log_level = Absent
      /\ \A i \in defaults1 : (\A j \in defaults1 : i <= j) =>
              g.default_log_level = LevelOf(directives, i)
  <2>1. CASE ~(parsed # Nothing /\ parsed.name = Absent)
    <3>1. defaults1 = defaults /\ g.default_log_level = f.default_log_level
      BY <1>3, <1>4, <2>1
    <3> QED
      BY <1>2, <3>1
  <2>2. CASE parsed # Nothing /\ parsed.name = Absent /\ defaults = {}
    <3>1. defaults1 = {k + 1} /\ g.default_log_level = parsed.level
      BY <1>2, <1>3, <1>4, <2>2
    <3> QED
      BY <1>5, <3>1
  <2>3. CASE parsed # Nothing /\ parsed.name = Absent /\ defaults # {}
    <3>1. PICK first \in defaults : \A j \in defaults : first <= j
      BY <1>7, <2>3
    <3>2. /\ f.default_log_level = LevelOf(directives, first)
          /\ f.default_log_level # Absent
      BY <1>1, <1>2, <3>1
    <3>3. g.default_log_level = LevelOf(directives, first)
      BY <1>3, <2>3, <3>2
    <3>4. defaults1 = defaults \cup {k + 1}
      BY <1>4, <2>3
    <3>5. ASSUME NEW i \in defaults1, \A j \in defaults1 : i <= j PROVE i = first
      <4>1. i <= first /\ first <= k
        BY <1>1, <3>1, <3>4, <3>5
      <4>2. i \in defaults
        BY <1>1, <3>4, <4>1
      <4>3. first <= i
        BY <3>1, <4>2
      <4> QED
        BY <1>1, <3>1, <4>1, <4>2, <4>3
    <3> QED
      BY <3>3, <3>4, <3>5
  <2> QED
    BY <2>1, <2>2, <2>3
<1> QED
  BY <1>3, <1>8, <1>9 DEF LevelsSoFar, named1, defaults1

LEMMA LevelsOfFilter ==
  ASSUME NEW directives, WellDirected(directives), NEW n \in Names
  PROVE  LevelsSoFar(FromEnvString(directives), directives, n, Len(directives))
<1> DEFINE len == Len(directives)
<1>1. Absent \notin Levels /\ n # Absent
  BY FiltersAssumption
<1>2. /\ directives \in Seq(Range(directives)) /\ len \in Nat
      /\ \A i \in 1..len : directives[i] \in Range(directives)
  BY DEF WellDirected, Range
<1>3. ASSUME NEW i \in 1..len, Directive(directives[i]) # Nothing
      PROVE  LevelOf(directives, i) \in Levels
  BY <1>2, <1>3, DirectiveIs DEF LevelOf, WellDirected
<1>4. PICK f : Filtered(f, directives, len) /\ FromEnvString(directives) = f[len]
  BY <1>2, FromEnvStringIs
<1> DEFINE S == {k \in Nat : k <= len => LevelsSoFar(f[k], directives, n, k)}
<1>5. 0 \in S
  <2>1. f[0] = EmptyFilter
    BY <1>4 DEF Filtered
  <2>2. CountFor(directives, n, 0) = {} /\ CountFor(directives, Absent, 0) = {}
    BY DEF CountFor
  <2>3. n \notin DOMAIN EmptyFilter.module_levels
    <3>1. EmptyFilter.module_levels = <<>> /\ DOMAIN <<>> = {}
      BY DEF EmptyFilter
    <3> QED
      BY <3>1
  <2>4. LevelsSoFar(f[0], directives, n, 0)
    BY <2>1, <2>2, <2>3 DEF LevelsSoFar, EmptyFilter
  <2> QED
    BY <2>4
<1>6. ASSUME NEW k \in Nat, k \in S PROVE k + 1 \in S
  <2> SUFFICES ASSUME k + 1 <= len PROVE LevelsSoFar(f[k + 1], directives, n, k + 1)
    OBVIOUS
  <2>1. k <= len /\ k + 1 \in 1..len /\ 1..(k + 1) \subseteq 1..len /\ (k + 1) - 1 = k
    BY <1>2
  <2>2. LevelsSoFar(f[k], directives, n, k)
    BY <1>6, <2>1
  <2>3. f[k + 1] = AddDirective(f[k], directives[k + 1])
    BY <1>4, <2>1 DEF Filtered
  <2>4. \A i \in 1..(k + 1) :
            Directive(directives[i]) # Nothing => LevelOf(directives, i) \in Levels
    BY <1>3, <2>1
  <2> QED
    BY <1>1, <2>2, <2>3, <2>4, LevelsStep
<1> HIDE DEF S
<1>7. \A k \in Nat : k \in S
  BY <1>5, <1>6, Induction
<1>8. LevelsSoFar(f[len], directives, n, len)
  BY <1>2, <1>7 DEF S
<1> QED
  BY <1>4, <1>8

(* Every directive of WASM_LOG counts for what it says, however many there *)
(* are and in whatever order (LoggerFilter::from_env_string).              *)
THEOREM LevelCorrect == Spec => []LevelIsAsDirected
<1>1. ReplInv => LevelIsAsDirected
  <2> SUFFICES ASSUME filter \in Filters, NEW n \in Names
               PROVE  LET parsed   == [i \in DOMAIN filter |-> Directive(filter[i])]
                          valid    == {i \in DOMAIN filter : parsed[i] # Nothing}
                          named    == {i \in valid : parsed[i].name = n}
                          defaults == {i \in valid : parsed[i].name = Absent}
                      IN  ModuleLevel(FromEnvString(filter), n) =
                              IF named # {} THEN parsed[Max(named)].level
                              ELSE IF defaults # {} THEN parsed[Min(defaults)].level
                              ELSE Absent
    BY DEF ReplInv, Typed, LevelIsAsDirected
  <2> DEFINE parsed == [i \in DOMAIN filter |-> Directive(filter[i])]
             valid == {i \in DOMAIN filter : parsed[i] # Nothing}
             named == {i \in valid : parsed[i].name = n}
             defaults == {i \in valid : parsed[i].name = Absent}
             f == FromEnvString(filter)
             len == Len(filter)
  <2>1. WellDirected(filter) /\ DOMAIN filter = 1..len /\ len \in Nat
    <3>1. WellDirected(filter)
      BY FiltersAssumption
    <3> QED
      BY <3>1 DEF WellDirected
  <2>2. LevelsSoFar(f, filter, n, len)
    BY <2>1, LevelsOfFilter
  <2>3. named = CountFor(filter, n, len) /\ defaults = CountFor(filter, Absent, len)
    BY <2>1 DEF CountFor
  <2>4. \A i \in named \cup defaults : parsed[i].level = LevelOf(filter, i)
    BY DEF LevelOf
  <2>5. named \subseteq 1..len /\ defaults \subseteq 1..len
    BY <2>1
  <2> HIDE DEF parsed, valid, named, defaults, f, len
  <2>6. /\ named = {} => n \notin DOMAIN f.module_levels
        /\ \A i \in named : (\A j \in named : j <= i) =>
                n \in DOMAIN f.module_levels /\ f.module_levels[n] = LevelOf(filter, i)
        /\ defaults = {} => f.default_log_level = Absent
        /\ \A i \in defaults : (\A j \in defaults : i <= j) =>
                f.default_log_level = LevelOf(filter, i)
    BY <2>2, <2>3 DEF LevelsSoFar
  <2>7. CASE named # {}
    <3>1. \E i \in named : \A j \in named : i >= j
      BY <2>1, <2>5, <2>7, Greatest
    <3>2. Max(named) \in named /\ \A j \in named : Max(named) >= j
      BY <3>1 DEF Max
    <3>3. \A j \in named : j <= Max(named)
      BY <2>5, <3>2
    <3>4. ModuleLevel(f, n) = LevelOf(filter, Max(named))
      BY <2>6, <3>2, <3>3 DEF ModuleLevel
    <3> QED
      BY <2>4, <2>7, <3>2, <3>4 DEF parsed, named, valid, f
  <2>8. CASE named = {} /\ defaults # {}
    <3>1. \E i \in defaults : \A j \in defaults : i <= j
      BY <2>1, <2>5, <2>8, Least
    <3>2. Min(defaults) \in defaults /\ \A j \in defaults : Min(defaults) <= j
      BY <3>1 DEF Min
    <3>3. ModuleLevel(f, n) = LevelOf(filter, Min(defaults))
      BY <2>6, <2>8, <3>2 DEF ModuleLevel
    <3> QED
      BY <2>4, <2>8, <3>2, <3>3 DEF parsed, named, defaults, valid, f
  <2>9. CASE named = {} /\ defaults = {}
    <3>1. ModuleLevel(f, n) = Absent
      BY <2>6, <2>9 DEF ModuleLevel
    <3> QED
      BY <2>9, <3>1 DEF parsed, named, defaults, valid, f
  <2> QED
    BY <2>7, <2>8, <2>9
<1> QED
  BY ReplCorrect, <1>1, PTL

=============================================================================
