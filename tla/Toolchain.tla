------------------------------ MODULE Toolchain ------------------------------
(***************************************************************************)
(* A Wasm file on its way from the compiler to a Marine: `marine build'    *)
(* compiles it, generates its interface step by step and embeds interface  *)
(* and SDK version one after the other; `marine set' embeds what a user    *)
(* gives; `marine info' and `marine aqua' read it; a Marine loads it.      *)
(* Sections are kept in sequences, for a file may have several of a name.  *)
(***************************************************************************)
EXTENDS Integers, SequencesExt

CONSTANTS
    Sources,        \* what the SDK describes, with the manifest it embeds
    SdkVersions,    \* versions of the SDK that projects use
    MinSdkVersion,
    ItVersion,      \* version of interfaces the generator writes
    MinItVersion,
    GivenITs,       \* interfaces a user sets
    MaxSections,    \* bound on the interface sections of a file
    MaxU64          \* the largest u64

\* What a generator, an interface and a loader are (see BuiltInterfaces).
CONSTANTS
    Refused,          \* an error of one of these
    Fresh,            \* what the generator starts with: its resolver
    Make(_, _, _),    \* for a kind: a resolver, and what a description makes of it
    Valid(_),         \* records, of a resolver
    HasInterface(_),  \* is there one to be read?
    Fits(_),          \* interfaces that a loader takes
    Nested(_),        \* sources that a loader follows to the end
    Typed(_, _),      \* interfaces whose adapters fit a source
    Tells(_, _)       \* interfaces that read like a source

Kinds == {"records", "functions", "imports"}

ASSUME VersionsAssumption ==
    /\ SdkVersions \subseteq Nat /\ {MinSdkVersion, ItVersion, MinItVersion} \subseteq Nat
    /\ ItVersion >= MinItVersion
ASSUME BoundAssumption == MaxSections \in Nat \ {0} /\ MaxU64 \in Nat

\* A prefix is a u64.
ASSUME SourcesAssumption ==
    \A source \in Sources :
        /\ \A kind \in Kinds : source[kind] \in Seq(Range(source[kind]))
        /\ \A manifest \in Range(source.manifests) :
            manifest.size \in Nat /\ manifest.lengths \in Seq(0..MaxU64)

VARIABLES
    file,    \* the Wasm file
    job,     \* the build in progress, or Absent
    built,   \* nothing has changed the file since a build ended well
    answer   \* what the last command said

vars == <<file, job, built, answer>>

Absent == [there |-> FALSE]

Init ==
    /\ file = Absent
    /\ job = Absent
    /\ built = FALSE
    /\ answer = "none"

--------------------------------------------------------------------------
(* marine build. *)

\* cargo compiles, or finds that there is nothing to do and leaves the file
\* with its sections.  It is gone on with when the lock file of the project
\* tells the version of the SDK.
Compile(source, sdk_version) ==
    /\ job = Absent
    /\ \/ file' = [source |-> source, its |-> <<>>, versions |-> <<>>]
       \/ file # Absent /\ file.source = source /\ UNCHANGED file
    /\ job' \in {[resolver |-> Fresh, sdk_version |-> sdk_version, step |-> "records", done |-> 0],
                 Absent}
    /\ built' = FALSE
    /\ UNCHANGED answer

Left(items) == job # Absent /\ job.step = items /\ job.done < Len(file.source[items])

Description(items) == file.source[items][job.done + 1]

\* The build goes on with what a description was made into, or stops.
Resolve(resolver) ==
    /\ IF resolver = Refused
       THEN job' = Absent /\ answer' = "build failed"
       ELSE /\ job' = [job EXCEPT !.resolver = resolver, !.done = @ + 1]
            /\ UNCHANGED answer
    /\ UNCHANGED <<file, built>>

\* One description of a kind after the other.
Generate(kind) == Left(kind) /\ Resolve(Make(kind, job.resolver, Description(kind)))

\* The slip of counting on.
ContinueCounting(step) == [job EXCEPT !.step = step]

Continue(step) == [job EXCEPT !.step = step, !.done = 0]

GoOn(from, to) ==
    /\ job # Absent /\ job.step = from /\ ~Left(from)
    /\ job' = Continue(to)
    /\ UNCHANGED <<file, built, answer>>

ValidateRecords ==
    /\ job # Absent /\ job.step = "records" /\ ~Left("records")
    /\ IF Valid(job.resolver)
       THEN job' = Continue("functions") /\ UNCHANGED answer
       ELSE job' = Absent /\ answer' = "build failed"
    /\ UNCHANGED <<file, built>>

Section(resolver) ==
    [version         |-> ItVersion,
     types           |-> resolver.types,
     imports         |-> resolver.imports,
     adapters        |-> resolver.adapters,
     exports         |-> resolver.exports,
     implementations |-> resolver.implementations]

\* The slip of leaving the interface sections of an earlier build.
EmbedInterfacesKeeping ==
    /\ job # Absent /\ job.step = "imports" /\ ~Left("imports")
    /\ Len(file.its) < MaxSections
    /\ file' = [file EXCEPT !.its = Append(@, Section(job.resolver))]
    /\ job' = Continue("version")
    /\ UNCHANGED <<built, answer>>

\* delete_it_section, embed_it and the writing of the file.
EmbedInterfaces ==
    /\ job # Absent /\ job.step = "imports" /\ ~Left("imports")
    /\ file' = [file EXCEPT !.its = <<Section(job.resolver)>>]
    /\ job' = Continue("version")
    /\ UNCHANGED <<built, answer>>

\* The file is read again and written again.
EmbedVersion ==
    /\ job # Absent /\ job.step = "version"
    /\ file' = [file EXCEPT !.versions = <<job.sdk_version>>]
    /\ job' = Absent
    /\ built' = TRUE
    /\ answer' = "built"

\* The tool is stopped, or a file cannot be written; what was written stays.
BuildStops ==
    /\ job # Absent
    /\ job' = Absent
    /\ answer' = "build failed"
    /\ UNCHANGED <<file, built>>

--------------------------------------------------------------------------
(* marine set. *)

\* embed_text_it: the sections that are there stay.
SetIT(it) ==
    /\ file # Absent /\ job = Absent
    /\ IF it = Refused
       THEN answer' = "not set" /\ UNCHANGED <<file, built>>
       ELSE /\ Len(file.its) < MaxSections
            /\ file' = [file EXCEPT !.its = Append(@, it)]
            /\ built' = FALSE
            /\ answer' = "set"
    /\ UNCHANGED job

SetVersion(version) ==
    /\ file # Absent /\ job = Absent
    /\ file' = [file EXCEPT !.versions = <<version>>]
    /\ built' = FALSE
    /\ answer' = "set"
    /\ UNCHANGED job

--------------------------------------------------------------------------
(* Reading. *)

\* try_as_one_section, extract_custom_section
Alone(sections) == Len(sections) = 1

Aqua ==
    /\ file # Absent /\ job = Absent
    /\ answer' = IF Alone(file.its) /\ HasInterface(file.its[1])
                 THEN "interface" ELSE "no interface"
    /\ UNCHANGED <<file, job, built>>

PREFIX_SIZE == 8

\* Does prefix and field fit into a u64?  The slip: not looked at.
TooBigUnchecked(length) == FALSE

TooBig(length) == length + PREFIX_SIZE > MaxU64

\* try_extract_prefixed_field, from an offset where a prefix claims that
\* length, of a manifest of size bytes.  Sums wrap.
ExtractField(size, offset, length) ==
    LET end == (length + PREFIX_SIZE) % (MaxU64 + 1)
        Fails(why) == [end |-> offset, outcome |-> why]
    IN  IF size - offset < PREFIX_SIZE THEN Fails("no prefix")
        ELSE IF TooBig(length) THEN Fails("too big")
        ELSE IF size - offset < end THEN Fails("no field")
        ELSE IF end < PREFIX_SIZE THEN Fails("panic")  \* a slice that ends before it starts
        ELSE [end |-> offset + end, outcome |-> "ok"]

\* ModuleManifest::try_from: five fields and nothing after them.  A field
\* that is not what it should be fails as well.
ManifestFields(manifest) ==
    LET upTo[n \in 0..Len(manifest.lengths)] ==
            IF n = 0 THEN [end |-> 0, outcome |-> "ok"]
            ELSE IF upTo[n - 1].outcome # "ok" THEN upTo[n - 1]
            ELSE ExtractField(manifest.size, upTo[n - 1].end, manifest.lengths[n])
    IN  upTo[Len(manifest.lengths)]

ReadManifest(manifest) ==
    LET fields == ManifestFields(manifest)
    IN  IF fields.outcome # "ok" THEN fields.outcome
        ELSE IF fields.end # manifest.size THEN "remainder"
        ELSE IF manifest.valid THEN "ok" ELSE "invalid"

\* The version of the interface has to be there; the other two may be
\* missing.
Info ==
    /\ file # Absent /\ job = Absent
    /\ answer' =
        IF /\ Alone(file.its)
           /\ Len(file.versions) <= 1
           /\ file.source.manifests # <<>> =>
                Len(file.source.manifests) = 1 /\ ReadManifest(file.source.manifests[1]) = "ok"
        THEN "info" ELSE "no info"
    /\ UNCHANGED <<file, job, built>>

\* MModule::new up to the start of the instance, where the modules that are
\* imported from are there.
Loads ==
    /\ Alone(file.versions) /\ file.versions[1] >= MinSdkVersion
    /\ Alone(file.its) /\ file.its[1].version >= MinItVersion
    /\ Fits(file.its[1])

Load ==
    /\ file # Absent /\ job = Absent
    /\ answer' = IF Loads THEN "loaded" ELSE "not loaded"
    /\ UNCHANGED <<file, job, built>>

Next ==
    \/ \E source \in Sources, version \in SdkVersions : Compile(source, version)
    \/ \E kind \in Kinds : Generate(kind)
    \/ ValidateRecords \/ GoOn("functions", "imports")
    \/ EmbedInterfaces \/ EmbedVersion \/ BuildStops
    \/ \E it \in GivenITs : SetIT(it)
    \/ \E version \in SdkVersions : SetVersion(version)
    \/ Aqua \/ Info \/ Load

Spec == Init /\ [][Next]_vars

--------------------------------------------------------------------------
(* Properties. *)

\* Every variable has its type; a build counts within what it goes through.
ToolchainTypeOK ==
    /\ file # Absent =>
        /\ file.source \in Sources
        /\ Len(file.its) <= MaxSections /\ Len(file.versions) <= 1
        /\ Range(file.versions) \subseteq SdkVersions
    /\ job # Absent =>
        /\ file # Absent /\ job.sdk_version \in SdkVersions
        /\ job.step \in {"records", "functions", "imports", "version"}
        /\ job.done \in 0..(IF job.step = "version" THEN 0 ELSE Len(file.source[job.step]))
    /\ built \in BOOLEAN /\ (built => job = Absent)

\* Every adapter that the generator wrote finds what it takes on its stack,
\* calls functions that exist with arguments of their types, and leaves
\* nothing but what its caller takes: that of an export the results of its
\* type; that of an import the numbers that the binary's import returns,
\* for its raw type, whose numbers are signed in the interface, is that of
\* the binary when it is read as Wasm.  So ids that the generator counted
\* and those that the loader counts are the same, functions of the host,
\* which the generator leaves alone, not being counted (fn_instructions,
\* foreign_mod_instructions, ITInstance::new).
AdaptersTyped == built => Typed(file.its[1], file.source)

\* Two records of one name, in different Rust modules, get into each
\* other's way; all below is about other descriptions.
OneNameEach(source) ==
    \A i, j \in DOMAIN source.records : source.records[i].name = source.records[j].name => i = j

\* The interface that is read from a file that was built is that of the
\* source: its functions, and the records these need, each after those it
\* is made of ("record types are guaranteed to be topological sorted",
\* module_interface.rs).
InterfaceFaithful ==
    (built /\ OneNameEach(file.source) /\ Nested(file.source)) => Tells(file.its[1], file.source)

\* A Marine takes what was built, whatever sections the file had before,
\* when the SDK is not too old, and unless types are nested deeper than the
\* loader follows: it counts arrays, and records twice, where the generator
\* counts records only (validate_records, handle_itype).
BuiltLoads ==
    (built /\ OneNameEach(file.source)) =>
        (Loads <=> file.versions[1] >= MinSdkVersion /\ Nested(file.source))

\* What fields of these lengths take with their prefixes.
SizeOf(lengths) ==
    LET upTo[n \in 0..Len(lengths)] ==
            IF n = 0 THEN 0 ELSE upTo[n - 1] + PREFIX_SIZE + lengths[n]
    IN  upTo[Len(lengths)]

\* Reading a manifest never reaches beyond its bytes or before them, even
\* when the length of a field is near the end of u64, and what is read has
\* used up every byte (try_extract_prefixed_field).
ManifestReads ==
    file # Absent =>
        \A m \in Range(file.source.manifests) :
            /\ ManifestFields(m).outcome # "panic"
            /\ ReadManifest(m) = "ok" => m.size = SizeOf(m.lengths)

=============================================================================
