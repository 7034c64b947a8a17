CONSTANTS
    Malformed = Malformed
    Refused = Malformed
    Fresh <- Resolver
    Make <- Generated
    Valid <- ValidRecords
    HasInterface <- Presentable
    Fits <- Loadable
    Nested <- NestedWithin
    Typed <- AdaptersFit
    Tells <- InterfaceOf
    RecursionLimit = 6
    HostNamespaces = {"host", "__marine_host_api_v3"}
    Sources <- MCSources
    SdkVersions = {5, 6, 7}
    MinSdkVersion = 6
    ItVersion = 2
    MinItVersion = 2
    GivenITs <- MCGivenITs
    MaxSections = 3
    MaxU64 = 99
SPECIFICATION Spec
INVARIANT ToolchainTypeOK
INVARIANT AdaptersTyped
INVARIANT InterfaceFaithful
INVARIANT BuiltLoads
INVARIANT ManifestReads
