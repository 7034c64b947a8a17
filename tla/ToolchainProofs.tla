--------------------------- MODULE ToolchainProofs ---------------------------
(***************************************************************************)
(* Theorems about Toolchain: what a build that ended well left in the file *)
(* comes from all of its source, in whatever order files were compiled,    *)
(* built, edited and given up; and reading a manifest stays inside it.     *)
(***************************************************************************)
EXTENDS Toolchain, PrefixLemmas

\* What the first n descriptions of a kind make of a resolver, none refused.
Steps(f, kind, source, n) ==
    /\ DOMAIN f = 0..n
    /\ \A i \in 1..n : f[i] = Make(kind, f[i - 1], source[kind][i]) /\ f[i] # Refused

Makes(kind, source, from, n, to) == \E f : Steps(f, kind, source, n) /\ f[0] = from /\ f[n] = to

\* What the generator has after each pass over a source.
AfterRecords(source, r) ==
    Makes("records", source, Fresh, Len(source.records), r) /\ Valid(r)
AfterFunctions(source, r) ==
    \E q : AfterRecords(source, q) /\ Makes("functions", source, q, Len(source.functions), r)
Whole(source, r) ==
    \E q : AfterFunctions(source, q) /\ Makes("imports", source, q, Len(source.imports), r)

\* What it starts a pass with.
Starts(kind, source, q) ==
    /\ kind = "records" => q = Fresh
    /\ kind = "functions" => AfterRecords(source, q)
    /\ kind = "imports" => AfterFunctions(source, q)

FileShape ==
    file # Absent =>
        /\ file = [source |-> file.source, its |-> file.its, versions |-> file.versions]
        /\ file.source \in Sources
        /\ \E T : file.its \in Seq(T)
        /\ Len(file.its) <= MaxSections
        /\ file.versions \in Seq(SdkVersions) /\ Len(file.versions) <= 1

JobShape ==
    job # Absent =>
        /\ job = [resolver |-> job.resolver, sdk_version |-> job.sdk_version,
                  step |-> job.step, done |-> job.done]
        /\ job.sdk_version \in SdkVersions
        /\ file # Absent /\ ~built
        /\ job.step \in Kinds \cup {"version"}

\* A build has what the descriptions make that it went through, and when it
\* is to embed the version, the interface of all of them is in the file.
JobDone ==
    job # Absent =>
        /\ job.step \in Kinds =>
            /\ job.done \in 0..Len(file.source[job.step])
            /\ \E q : /\ Starts(job.step, file.source, q)
                      /\ Makes(job.step, file.source, q, job.done, job.resolver)
        /\ job.step = "version" =>
            /\ job.done = 0
            /\ Whole(file.source, job.resolver)
            /\ file.its = <<Section(job.resolver)>>

BuiltWhole ==
    built =>
        /\ file # Absent /\ job = Absent
        /\ Len(file.versions) = 1
        /\ \E r : Whole(file.source, r) /\ file.its = <<Section(r)>>

ToolchainInv == built \in BOOLEAN /\ FileShape /\ JobShape /\ JobDone /\ BuiltWhole

------------------------------------------------------------------------------
(* Passes over descriptions. *)

(* Records are not Absent. *)
LEMMA Present ==
  /\ \A s, i, v : [source |-> s, its |-> i, versions |-> v] # Absent
  /\ \A r, v, s, d : [resolver |-> r, sdk_version |-> v, step |-> s, done |-> d] # Absent
<1>1. DOMAIN Absent = {"there"} /\ "source" # "there" /\ "resolver" # "there"
  BY DEF Absent
<1>2. \A s, i, v : "source" \in DOMAIN [source |-> s, its |-> i, versions |-> v]
  OBVIOUS
<1>3. \A r, v, s, d :
        "resolver" \in DOMAIN [resolver |-> r, sdk_version |-> v, step |-> s, done |-> d]
  OBVIOUS
<1> QED
  BY <1>1, <1>2, <1>3

(* The descriptions of a kind are a sequence. *)
LEMMA Descriptions ==
  ASSUME NEW source \in Sources, NEW kind \in Kinds
  PROVE  Len(source[kind]) \in Nat
<1>1. source[kind] \in Seq(Range(source[kind]))
  BY SourcesAssumption
<1> DEFINE T == Range(source[kind])
           items == source[kind]
<1> HIDE DEF T, items
<1>2. items \in Seq(T) => Len(items) \in Nat
  OBVIOUS
<1> QED
  BY <1>1, <1>2 DEF T, items

(* No description makes nothing, *)
LEMMA MakesNothing ==
  ASSUME NEW kind, NEW source, NEW r
  PROVE  Makes(kind, source, r, 0, r)
<1> DEFINE f == [i \in 0..0 |-> r]
<1>1. DOMAIN f = 0..0 /\ f[0] = r /\ 1..0 = {}
  OBVIOUS
<1> HIDE DEF f
<1>2. Steps(f, kind, source, 0)
  BY <1>1 DEF Steps
<1> QED
  BY <1>1, <1>2 DEF Makes

(* and one more makes a step. *)
LEMMA MakesMore ==
  ASSUME NEW kind, NEW source, NEW from, NEW n \in Nat, NEW r, NEW next,
         Makes(kind, source, from, n, r),
         next = Make(kind, r, source[kind][n + 1]), next # Refused
  PROVE  Makes(kind, source, from, n + 1, next)
<1>1. PICK f : Steps(f, kind, source, n) /\ f[0] = from /\ f[n] = r
  BY DEF Makes
<1> DEFINE g == [i \in 0..(n + 1) |-> IF i = n + 1 THEN next ELSE f[i]]
<1>2. /\ DOMAIN g = 0..(n + 1)
      /\ \A i \in 0..n : g[i] = f[i]
      /\ g[n + 1] = next
  OBVIOUS
<1> HIDE DEF g
<1>3. ASSUME NEW i \in 1..(n + 1)
      PROVE  g[i] = Make(kind, g[i - 1], source[kind][i]) /\ g[i] # Refused
  <2>1. CASE i = n + 1
    <3>1. i - 1 = n /\ n \in 0..n
      BY <2>1
    <3>2. g[i - 1] = r
      BY <1>1, <1>2, <3>1
    <3> QED
      BY <1>2, <2>1, <3>2
  <2>2. CASE i # n + 1
    <3>1. i \in 1..n /\ i \in 0..n /\ i - 1 \in 0..n
      BY <2>2
    <3>2. g[i] = f[i] /\ g[i - 1] = f[i - 1]
      BY <1>2, <3>1
    <3> QED
      BY <1>1, <3>1, <3>2 DEF Steps
  <2> QED
    BY <2>1, <2>2
<1>4. Steps(g, kind, source, n + 1)
  BY <1>2, <1>3 DEF Steps
<1>5. g[0] = from
  BY <1>1, <1>2
<1> QED
  BY <1>2, <1>4, <1>5 DEF Makes

------------------------------------------------------------------------------
(* Actions. *)

LEMMA ToolchainInitial == Init => ToolchainInv
  BY DEF Init, ToolchainInv, FileShape, JobShape, JobDone, BuiltWhole

(* A build begins with nothing done, on a file of its source. *)
LEMMA CompileStep ==
  ASSUME ToolchainInv, NEW source \in Sources, NEW version \in SdkVersions,
         Compile(source, version)
  PROVE  ToolchainInv'
<1> DEFINE begun == [resolver |-> Fresh, sdk_version |-> version, step |-> "records", done |-> 0]
           fresh == [source |-> source, its |-> <<>>, versions |-> <<>>]
<1>1. built' = FALSE /\ job' \in {begun, Absent}
  BY DEF Compile
<1>2. FileShape' /\ (file' # Absent => file'.source = source)
      /\ file' # Absent
  <2>1. CASE file' = fresh
    <3>1. /\ fresh.source = source /\ fresh.its = <<>> /\ fresh.versions = <<>>
          /\ fresh # Absent
      BY Present
    <3> HIDE DEF fresh
    <3>2. /\ file'.source = source /\ file'.its = <<>> /\ file'.versions = <<>>
          /\ file' # Absent
      BY <2>1, <3>1
    <3>3. file' = [source |-> file'.source, its |-> file'.its, versions |-> file'.versions]
      BY <2>1, <3>2 DEF fresh
    <3>4. /\ file'.its \in Seq({}) /\ Len(file'.its) = 0
          /\ file'.versions \in Seq(SdkVersions) /\ Len(file'.versions) = 0
      BY <3>2
    <3> QED
      BY <3>2, <3>3, <3>4, BoundAssumption DEF FileShape
  <2>2. CASE file # Absent /\ file.source = source /\ file' = file
    BY <2>2 DEF ToolchainInv, FileShape
  <2> QED
    BY <2>1, <2>2 DEF Compile
<1>3. JobShape' /\ JobDone'
  <2>1. CASE job' = Absent
    BY <2>1 DEF JobShape, JobDone
  <2>2. CASE job' = begun
    <3>1. /\ begun.resolver = Fresh /\ begun.sdk_version = version
          /\ begun.step = "records" /\ begun.done = 0
      OBVIOUS
    <3>2. begun = [resolver |-> begun.resolver, sdk_version |-> begun.sdk_version,
                   step |-> begun.step, done |-> begun.done]
      BY <3>1
    <3> HIDE DEF begun
    <3>3. JobShape'
      BY <1>1, <1>2, <2>2, <3>1, <3>2 DEF JobShape, Kinds
    <3>4. 0 \in 0..Len(source["records"])
      BY Descriptions DEF Kinds
    <3>5. Starts("records", source, Fresh) /\ Makes("records", source, Fresh, 0, Fresh)
      BY MakesNothing DEF Starts
    <3> QED
      BY <1>2, <2>2, <3>1, <3>3, <3>4, <3>5 DEF JobDone
  <2> QED
    BY <1>1, <2>1, <2>2
<1> QED
  BY <1>1, <1>2, <1>3 DEF ToolchainInv, BuiltWhole

(* A job that is changed in place. *)
Same(done, resolver, step) ==
    /\ job'.done = done /\ job'.resolver = resolver /\ job'.step = step
    /\ job'.sdk_version = job.sdk_version
    /\ job' = [resolver |-> job'.resolver, sdk_version |-> job'.sdk_version,
               step |-> job'.step, done |-> job'.done]
    /\ job' # Absent

LEMMA JobSet ==
  ASSUME ToolchainInv, job # Absent, NEW done, NEW resolver, NEW step,
         job' = [resolver |-> resolver, sdk_version |-> job.sdk_version,
                 step |-> step, done |-> done]
  PROVE  Same(done, resolver, step)
  BY Present DEF Same

(* What the changes of a job make of its record. *)
IsJob(p) ==
    p = [resolver |-> p.resolver, sdk_version |-> p.sdk_version, step |-> p.step, done |-> p.done]

LEMMA JobChanges ==
  ASSUME NEW p, IsJob(p)
  PROVE  /\ \A r : [p EXCEPT !.resolver = r, !.done = @ + 1] =
                    [resolver |-> r, sdk_version |-> p.sdk_version,
                     step |-> p.step, done |-> p.done + 1]
         /\ \A s : [p EXCEPT !.step = s, !.done = 0] =
                    [resolver |-> p.resolver, sdk_version |-> p.sdk_version,
                     step |-> s, done |-> 0]
<1>1. DOMAIN p = {"resolver", "sdk_version", "step", "done"}
  BY DEF IsJob
<1>2. ASSUME NEW r
      PROVE  [p EXCEPT !.resolver = r, !.done = @ + 1] =
                    [resolver |-> r, sdk_version |-> p.sdk_version,
                     step |-> p.step, done |-> p.done + 1]
  <2>1. [p EXCEPT !.resolver = r, !.done = @ + 1] =
            [x \in DOMAIN p |-> IF x = "done" THEN p.done + 1 ELSE IF x = "resolver" THEN r ELSE p[x]]
    BY <1>1
  <2> QED
    BY <1>1, <2>1
<1>3. ASSUME NEW s
      PROVE  [p EXCEPT !.step = s, !.done = 0] =
                    [resolver |-> p.resolver, sdk_version |-> p.sdk_version,
                     step |-> s, done |-> 0]
  <2>1. [p EXCEPT !.step = s, !.done = 0] =
            [x \in DOMAIN p |-> IF x = "done" THEN 0 ELSE IF x = "step" THEN s ELSE p[x]]
    BY <1>1
  <2> QED
    BY <1>1, <2>1
<1> QED
  BY <1>2, <1>3

(* A build that stops leaves the file. *)
LEMMA JobGone ==
  ASSUME ToolchainInv, job # Absent, job' = Absent, UNCHANGED <<file, built>>
  PROVE  ToolchainInv'
  BY DEF ToolchainInv, FileShape, JobShape, JobDone, BuiltWhole

(* A build that goes on in place, with the file as it was. *)
LEMMA JobGoesOn ==
  ASSUME ToolchainInv, job # Absent, UNCHANGED <<file, built>>,
         NEW done, NEW resolver, NEW step \in Kinds,
         job' = [resolver |-> resolver, sdk_version |-> job.sdk_version,
                 step |-> step, done |-> done],
         done \in 0..Len(file.source[step]),
         \E q : Starts(step, file.source, q) /\ Makes(step, file.source, q, done, resolver)
  PROVE  ToolchainInv'
<1>1. Same(done, resolver, step)
  BY JobSet
<1>2. step # "version"
  BY DEF Kinds
<1>3. FileShape' /\ BuiltWhole'
  BY DEF ToolchainInv, FileShape, JobShape, BuiltWhole
<1>4. JobShape'
  BY <1>1 DEF ToolchainInv, JobShape, Same
<1>5. JobDone'
  BY <1>1, <1>2 DEF JobDone, Same
<1> QED
  BY <1>3, <1>4, <1>5 DEF ToolchainInv

(* A description makes something of what those before it made. *)
LEMMA GenerateStep ==
  ASSUME ToolchainInv, NEW kind \in Kinds, Generate(kind)
  PROVE  ToolchainInv'
<1>1. job # Absent /\ job.step = kind /\ job.done < Len(file.source[kind])
      /\ UNCHANGED <<file, built>>
  BY DEF Generate, Left, Resolve
<1>2. PICK made : made = Make(kind, job.resolver, file.source[kind][job.done + 1])
  OBVIOUS
<1>3. CASE made = Refused
  <2>1. job' = Absent
    BY <1>2, <1>3 DEF Generate, Resolve, Description
  <2> QED
    BY <1>1, <2>1, JobGone
<1>4. CASE made # Refused
  <2>1. PICK n, r : n = job.done /\ r = job.resolver
    OBVIOUS
  <2>2. job' = [job EXCEPT !.resolver = made, !.done = @ + 1]
    BY <1>2, <1>4 DEF Generate, Resolve, Description
  <2>3. IsJob(job)
    BY <1>1 DEF ToolchainInv, JobShape, IsJob
  <2>4. job' = [resolver |-> made, sdk_version |-> job.sdk_version, step |-> kind, done |-> n + 1]
    BY <1>1, <2>1, <2>2, <2>3, JobChanges
  <2>5. file.source \in Sources
    BY <1>1 DEF ToolchainInv, JobShape, FileShape
  <2>6. PICK source : source = file.source
    OBVIOUS
  <2>7. /\ n \in 0..Len(source[kind]) /\ n < Len(source[kind])
        /\ \E q : Starts(kind, source, q) /\ Makes(kind, source, q, n, r)
    BY <1>1, <2>1, <2>6 DEF ToolchainInv, JobDone
  <2>8. Len(source[kind]) \in Nat
    BY <2>5, <2>6, Descriptions
  <2>9. n \in Nat /\ n + 1 \in 0..Len(source[kind])
    BY <2>7, <2>8
  <2>10. PICK q : Starts(kind, source, q) /\ Makes(kind, source, q, n, r)
    BY <2>7
  <2>11. made = Make(kind, r, source[kind][n + 1])
    BY <1>2, <2>1, <2>6
  <2>12. Makes(kind, source, q, n + 1, made)
    BY <1>4, <2>9, <2>10, <2>11, MakesMore
  <2> QED
    BY <1>1, <2>4, <2>6, <2>9, <2>10, <2>12, JobGoesOn
<1> QED
  BY <1>3, <1>4

(* A pass is over when it went through all descriptions of its kind. *)
LEMMA PassOver ==
  ASSUME ToolchainInv, job # Absent, NEW kind \in Kinds, job.step = kind, ~Left(kind)
  PROVE  /\ file.source \in Sources
         /\ \E q : /\ Starts(kind, file.source, q)
                   /\ Makes(kind, file.source, q, Len(file.source[kind]), job.resolver)
<1>1. file.source \in Sources
  BY DEF ToolchainInv, JobShape, FileShape
<1>2. Len(file.source[kind]) \in Nat
  BY <1>1, Descriptions
<1>3. /\ job.done \in 0..Len(file.source[kind])
      /\ \E q : Starts(kind, file.source, q) /\ Makes(kind, file.source, q, job.done, job.resolver)
  BY DEF ToolchainInv, JobDone
<1>4. job.done = Len(file.source[kind])
  <2>1. ~(job.done < Len(file.source[kind]))
    BY DEF Left
  <2> QED
    BY <1>2, <1>3, <2>1
<1> QED
  BY <1>1, <1>3, <1>4

(* The next pass starts. *)
LEMMA NextPass ==
  ASSUME ToolchainInv, job # Absent, UNCHANGED <<file, built>>,
         NEW to \in Kinds, job' = Continue(to),
         file.source \in Sources, Starts(to, file.source, job.resolver)
  PROVE  ToolchainInv'
<1>1. IsJob(job)
  BY DEF ToolchainInv, JobShape, IsJob
<1>2. PICK r, source : r = job.resolver /\ source = file.source
  OBVIOUS
<1>3. job' = [resolver |-> r, sdk_version |-> job.sdk_version, step |-> to, done |-> 0]
  BY <1>1, <1>2, JobChanges DEF Continue
<1>4. 0 \in 0..Len(source[to])
  BY <1>2, Descriptions
<1>5. Makes(to, source, r, 0, r)
  BY MakesNothing
<1> QED
  BY <1>2, <1>3, <1>4, <1>5, JobGoesOn

LEMMA ValidateStep ==
  ASSUME ToolchainInv, ValidateRecords
  PROVE  ToolchainInv'
<1>1. job # Absent /\ job.step = "records" /\ ~Left("records") /\ UNCHANGED <<file, built>>
  BY DEF ValidateRecords
<1>2. CASE Valid(job.resolver)
  <2>1. job' = Continue("functions")
    BY <1>2 DEF ValidateRecords
  <2>2. /\ file.source \in Sources
        /\ \E q : /\ Starts("records", file.source, q)
                  /\ Makes("records", file.source, q, Len(file.source["records"]), job.resolver)
    BY <1>1, PassOver DEF Kinds
  <2>3. Makes("records", file.source, Fresh, Len(file.source["records"]), job.resolver)
    BY <2>2 DEF Starts
  <2>4. Starts("functions", file.source, job.resolver)
    BY <1>2, <2>3 DEF Starts, AfterRecords
  <2>5. "functions" \in Kinds
    BY DEF Kinds
  <2> QED
    BY <1>1, <2>1, <2>2, <2>4, <2>5, NextPass
<1>3. CASE ~Valid(job.resolver)
  BY <1>1, <1>3, JobGone DEF ValidateRecords
<1> QED
  BY <1>2, <1>3

LEMMA GoOnStep ==
  ASSUME ToolchainInv, GoOn("functions", "imports")
  PROVE  ToolchainInv'
<1>1. /\ job # Absent /\ job.step = "functions" /\ ~Left("functions")
      /\ job' = Continue("imports") /\ UNCHANGED <<file, built>>
  BY DEF GoOn
<1>2. /\ file.source \in Sources
      /\ \E q : /\ Starts("functions", file.source, q)
                /\ Makes("functions", file.source, q, Len(file.source["functions"]), job.resolver)
  BY <1>1, PassOver DEF Kinds
<1>3. AfterFunctions(file.source, job.resolver)
  BY <1>2 DEF Starts, AfterFunctions
<1>4. Starts("imports", file.source, job.resolver)
  BY <1>3 DEF Starts
<1>5. "imports" \in Kinds
  BY DEF Kinds
<1> QED
  BY <1>1, <1>2, <1>4, <1>5, NextPass

(* What the changes of a file make of its record. *)
IsFile(p) == p = [source |-> p.source, its |-> p.its, versions |-> p.versions]

LEMMA FileChanges ==
  ASSUME NEW p, IsFile(p), NEW sections
  PROVE  /\ [p EXCEPT !.its = sections] =
                [source |-> p.source, its |-> sections, versions |-> p.versions]
         /\ [p EXCEPT !.versions = sections] =
                [source |-> p.source, its |-> p.its, versions |-> sections]
<1>1. DOMAIN p = {"source", "its", "versions"}
  BY DEF IsFile
<1>2. [p EXCEPT !.its = sections] = [x \in DOMAIN p |-> IF x = "its" THEN sections ELSE p[x]]
  BY <1>1
<1>3. [p EXCEPT !.versions = sections] =
        [x \in DOMAIN p |-> IF x = "versions" THEN sections ELSE p[x]]
  BY <1>1
<1> QED
  BY <1>1, <1>2, <1>3

(* A file whose sections are replaced by others is a file of its source. *)
LEMMA FileSet ==
  ASSUME ToolchainInv, file # Absent, NEW its, NEW versions \in Seq(SdkVersions), NEW T,
         its \in Seq(T), Len(its) <= MaxSections, Len(versions) <= 1,
         file' = [source |-> file.source, its |-> its, versions |-> versions]
  PROVE  /\ FileShape' /\ file' # Absent
         /\ file'.source = file.source /\ file'.its = its /\ file'.versions = versions
<1>1. file'.source = file.source /\ file'.its = its /\ file'.versions = versions
  OBVIOUS
<1>2. file' # Absent
  BY Present
<1>3. file' = [source |-> file'.source, its |-> file'.its, versions |-> file'.versions]
  BY <1>1
<1>4. file.source \in Sources
  BY DEF ToolchainInv, FileShape
<1> QED
  BY <1>1, <1>2, <1>3, <1>4 DEF FileShape

(* The interface of the whole source takes the place of all that there are. *)
LEMMA EmbedInterfacesStep ==
  ASSUME ToolchainInv, EmbedInterfaces
  PROVE  ToolchainInv'
<1>1. /\ job # Absent /\ job.step = "imports" /\ ~Left("imports")
      /\ file' = [file EXCEPT !.its = <<Section(job.resolver)>>]
      /\ job' = Continue("version") /\ UNCHANGED built
  BY DEF EmbedInterfaces
<1>2. PICK r, source : r = job.resolver /\ source = file.source
  OBVIOUS
<1>3. /\ file.source \in Sources
      /\ \E q : /\ Starts("imports", file.source, q)
                /\ Makes("imports", file.source, q, Len(file.source["imports"]), job.resolver)
  BY <1>1, PassOver DEF Kinds
<1>4. Whole(source, r)
  BY <1>2, <1>3 DEF Starts, Whole
<1>5. file # Absent /\ IsFile(file) /\ IsJob(job)
      /\ file.versions \in Seq(SdkVersions) /\ Len(file.versions) <= 1
  BY <1>1 DEF ToolchainInv, JobShape, FileShape, IsFile, IsJob
<1>6. PICK its, versions : its = <<Section(r)>> /\ versions = file.versions
  OBVIOUS
<1>7. file' = [source |-> file.source, its |-> its, versions |-> versions]
  BY <1>1, <1>2, <1>5, <1>6, FileChanges
<1>8. its \in Seq({Section(r)}) /\ Len(its) = 1 /\ Len(its) <= MaxSections
  BY <1>6, BoundAssumption
<1>9. /\ FileShape' /\ file' # Absent
      /\ file'.source = file.source /\ file'.its = its
  BY <1>5, <1>6, <1>7, <1>8, FileSet
<1>10. job' = [resolver |-> r, sdk_version |-> job.sdk_version, step |-> "version", done |-> 0]
  BY <1>1, <1>2, <1>5, JobChanges DEF Continue
<1>11. Same(0, r, "version")
  BY <1>1, <1>10, JobSet
<1>12. ~built /\ job.sdk_version \in SdkVersions
  BY <1>1 DEF ToolchainInv, JobShape
<1>13. JobShape'
  BY <1>1, <1>9, <1>11, <1>12 DEF JobShape, Same
<1>14. JobDone'
  BY <1>2, <1>4, <1>6, <1>9, <1>11 DEF JobDone, Same, Kinds
<1> QED
  BY <1>1, <1>9, <1>12, <1>13, <1>14 DEF ToolchainInv, BuiltWhole

LEMMA EmbedVersionStep ==
  ASSUME ToolchainInv, EmbedVersion
  PROVE  ToolchainInv'
<1>1. /\ job # Absent /\ job.step = "version"
      /\ file' = [file EXCEPT !.versions = <<job.sdk_version>>]
      /\ job' = Absent /\ built' = TRUE
  BY DEF EmbedVersion
<1>2. PICK r, its, versions :
        r = job.resolver /\ its = file.its /\ versions = <<job.sdk_version>>
  OBVIOUS
<1>3. Whole(file.source, r) /\ its = <<Section(r)>>
  BY <1>1, <1>2 DEF ToolchainInv, JobDone
<1>4. /\ file # Absent /\ IsFile(file) /\ job.sdk_version \in SdkVersions
      /\ \E T : its \in Seq(T)
      /\ Len(its) <= MaxSections
  BY <1>1, <1>2 DEF ToolchainInv, JobShape, FileShape, IsFile
<1>5. file' = [source |-> file.source, its |-> its, versions |-> versions]
  BY <1>1, <1>2, <1>4, FileChanges
<1>6. versions \in Seq(SdkVersions) /\ Len(versions) = 1
  BY <1>2, <1>4
<1>7. /\ FileShape' /\ file' # Absent
      /\ file'.source = file.source /\ file'.its = its /\ file'.versions = versions
  <2>1. PICK T : its \in Seq(T)
    BY <1>4
  <2>2. Len(versions) <= 1
    BY <1>6
  <2> QED
    BY <1>4, <1>5, <1>6, <2>1, <2>2, FileSet
<1>8. BuiltWhole'
  BY <1>1, <1>3, <1>6, <1>7 DEF BuiltWhole
<1> QED
  BY <1>1, <1>7, <1>8 DEF ToolchainInv, JobShape, JobDone

(* What a user sets is added to the interfaces; the file is no longer what
   was built. *)
LEMMA SetITStep ==
  ASSUME ToolchainInv, NEW it \in GivenITs, SetIT(it)
  PROVE  ToolchainInv'
<1>1. file # Absent /\ job = Absent /\ job' = job
  BY DEF SetIT
<1>2. CASE UNCHANGED <<file, built>>
  BY <1>1, <1>2 DEF ToolchainInv, FileShape, JobShape, JobDone, BuiltWhole
<1>3. CASE /\ Len(file.its) < MaxSections
           /\ file' = [file EXCEPT !.its = Append(@, it)]
           /\ built' = FALSE
  <2>1. /\ IsFile(file) /\ file.versions \in Seq(SdkVersions) /\ Len(file.versions) <= 1
        /\ \E T : file.its \in Seq(T)
    BY <1>1 DEF ToolchainInv, FileShape, IsFile
  <2>2. PICK T : file.its \in Seq(T)
    BY <2>1
  <2>3. PICK old, versions : old = file.its /\ versions = file.versions
    OBVIOUS
  <2>4. PICK its : its = Append(old, it)
    OBVIOUS
  <2>5. old \in Seq(T \cup {it})
    BY <2>2, <2>3
  <2>6. its \in Seq(T \cup {it}) /\ Len(its) = Len(old) + 1
    BY <2>4, <2>5
  <2>7. Len(its) <= MaxSections
    BY <1>3, <2>3, <2>5, <2>6, BoundAssumption
  <2>8. file' = [file EXCEPT !.its = its]
    BY <1>3, <2>3, <2>4
  <2>9. file' = [source |-> file.source, its |-> its, versions |-> versions]
    BY <2>1, <2>3, <2>8, FileChanges
  <2>10. FileShape'
    BY <1>1, <2>1, <2>3, <2>6, <2>7, <2>9, FileSet
  <2> QED
    BY <1>1, <1>3, <2>10 DEF ToolchainInv, JobShape, JobDone, BuiltWhole
<1> QED
  BY <1>2, <1>3 DEF SetIT

LEMMA SetVersionStep ==
  ASSUME ToolchainInv, NEW version \in SdkVersions, SetVersion(version)
  PROVE  ToolchainInv'
<1>1. /\ file # Absent /\ job = Absent /\ job' = job /\ built' = FALSE
      /\ file' = [file EXCEPT !.versions = <<version>>]
  BY DEF SetVersion
<1>2. PICK its, versions : its = file.its /\ versions = <<version>>
  OBVIOUS
<1>3. /\ IsFile(file) /\ Len(its) <= MaxSections
      /\ \E T : its \in Seq(T)
  BY <1>1, <1>2 DEF ToolchainInv, FileShape, IsFile
<1>4. file' = [source |-> file.source, its |-> its, versions |-> versions]
  BY <1>1, <1>2, <1>3, FileChanges
<1>5. versions \in Seq(SdkVersions) /\ Len(versions) <= 1
  BY <1>2
<1>6. FileShape'
  BY <1>1, <1>3, <1>4, <1>5, FileSet
<1> QED
  BY <1>1, <1>6 DEF ToolchainInv, JobShape, JobDone, BuiltWhole

(* Reading changes nothing. *)
LEMMA QuietStep ==
  ASSUME ToolchainInv, UNCHANGED <<file, job, built>>
  PROVE  ToolchainInv'
  BY DEF ToolchainInv, FileShape, JobShape, JobDone, BuiltWhole

LEMMA ToolchainStep == ToolchainInv /\ [Next]_vars => ToolchainInv'
<1> SUFFICES ASSUME ToolchainInv, [Next]_vars PROVE ToolchainInv'
  OBVIOUS
<1>1. CASE \E source \in Sources, version \in SdkVersions : Compile(source, version)
  BY <1>1, CompileStep
<1>2. CASE \E kind \in Kinds : Generate(kind)
  BY <1>2, GenerateStep
<1>3. CASE ValidateRecords \/ GoOn("functions", "imports")
  BY <1>3, ValidateStep, GoOnStep
<1>4. CASE EmbedInterfaces \/ EmbedVersion
  BY <1>4, EmbedInterfacesStep, EmbedVersionStep
<1>5. CASE BuildStops
  BY <1>5, JobGone DEF BuildStops
<1>6. CASE \E it \in GivenITs : SetIT(it)
  BY <1>6, SetITStep
<1>7. CASE \E version \in SdkVersions : SetVersion(version)
  BY <1>7, SetVersionStep
<1>8. CASE Aqua \/ Info \/ Load \/ UNCHANGED vars
  BY <1>8, QuietStep DEF Aqua, Info, Load, vars
<1> QED
  BY <1>1, <1>2, <1>3, <1>4, <1>5, <1>6, <1>7, <1>8 DEF Next

------------------------------------------------------------------------------
(* Theorems. *)

(* A file that was built has the interface of its whole source and nothing
   else, and one version: no build that stopped, no older section and no
   edit is left in it (build, embed_it, embed_from_path). *)
THEOREM ToolchainCorrect == Spec => []ToolchainInv
<1>1. Init => ToolchainInv
  BY ToolchainInitial
<1>2. ToolchainInv /\ [Next]_vars => ToolchainInv'
  BY ToolchainStep
<1> QED
  BY <1>1, <1>2, PTL DEF Spec

(* Every variable has its type, and a build counts within what it goes
   through (generate_interfaces). *)
THEOREM ToolchainTypeCorrect == Spec => []ToolchainTypeOK
<1>1. ToolchainInv => ToolchainTypeOK
  <2> SUFFICES ASSUME ToolchainInv PROVE ToolchainTypeOK
    OBVIOUS
  <2>1. ASSUME file # Absent
        PROVE  /\ file.source \in Sources
               /\ Len(file.its) <= MaxSections /\ Len(file.versions) <= 1
               /\ Range(file.versions) \subseteq SdkVersions
    <3>1. /\ file.source \in Sources /\ Len(file.its) <= MaxSections
          /\ Len(file.versions) <= 1 /\ file.versions \in Seq(SdkVersions)
      BY <2>1 DEF ToolchainInv, FileShape
    <3> QED
      BY <3>1 DEF Range
  <2>2. ASSUME job # Absent
        PROVE  /\ file # Absent /\ job.sdk_version \in SdkVersions
               /\ job.step \in {"records", "functions", "imports", "version"}
               /\ job.done \in 0..(IF job.step = "version" THEN 0 ELSE Len(file.source[job.step]))
    <3>1. /\ file # Absent /\ job.sdk_version \in SdkVersions
          /\ job.step \in Kinds \cup {"version"}
      BY <2>2 DEF ToolchainInv, JobShape
    <3>2. CASE job.step = "version"
      BY <2>2, <3>1, <3>2 DEF ToolchainInv, JobDone
    <3>3. CASE job.step # "version"
      BY <2>2, <3>1, <3>3 DEF ToolchainInv, JobDone, Kinds
    <3> QED
      BY <3>2, <3>3
  <2>3. built \in BOOLEAN /\ (built => job = Absent)
    BY DEF ToolchainInv, BuiltWhole
  <2> QED
    BY <2>1, <2>2, <2>3 DEF ToolchainTypeOK
<1> QED
  BY <1>1, ToolchainCorrect, PTL

(* Whatever the generator makes of a whole source has a property. *)
AdaptersRight ==
    \A source \in Sources : \A r : Whole(source, r) => Typed(Section(r), source)
InterfacesRight ==
    \A source \in Sources : \A r :
        Whole(source, r) /\ OneNameEach(source) /\ Nested(source) => Tells(Section(r), source)
LoaderRight ==
    \A source \in Sources : \A r :
        Whole(source, r) /\ OneNameEach(source) => (Fits(Section(r)) <=> Nested(source))

(* If the generator types the adapters of a whole source, then those of
   every file that was built are typed, whatever was compiled, stopped, set
   and built before (fn_instructions, foreign_mod_instructions). *)
THEOREM AdaptersCorrect == AdaptersRight => (Spec => []AdaptersTyped)
<1> SUFFICES ASSUME AdaptersRight PROVE Spec => []AdaptersTyped
  OBVIOUS
<1>1. ToolchainInv => AdaptersTyped
  BY DEF AdaptersRight, AdaptersTyped, ToolchainInv, BuiltWhole, FileShape
<1> QED
  BY <1>1, ToolchainCorrect, PTL

(* If the interface of a whole source reads like it, so does that of every
   file that was built (it_interface, RecordsTransformer). *)
THEOREM InterfaceCorrect == InterfacesRight => (Spec => []InterfaceFaithful)
<1> SUFFICES ASSUME InterfacesRight PROVE Spec => []InterfaceFaithful
  OBVIOUS
<1>1. ToolchainInv => InterfaceFaithful
  BY DEF InterfacesRight, InterfaceFaithful, ToolchainInv, BuiltWhole, FileShape
<1> QED
  BY <1>1, ToolchainCorrect, PTL

(* If a loader takes the interface of a whole source unless its types are
   nested too deep, a Marine takes every file that was built when its SDK
   is not too old either: the file has one interface and one version
   (check_sdk_version, check_it_version, try_as_one_section). *)
THEOREM LoadsCorrect == LoaderRight => (Spec => []BuiltLoads)
<1> SUFFICES ASSUME LoaderRight PROVE Spec => []BuiltLoads
  OBVIOUS
<1>1. ToolchainInv => BuiltLoads
  <2> SUFFICES ASSUME ToolchainInv, built, OneNameEach(file.source)
               PROVE  Loads <=> file.versions[1] >= MinSdkVersion /\ Nested(file.source)
    BY DEF BuiltLoads
  <2>1. file.source \in Sources /\ Len(file.versions) = 1
    BY DEF ToolchainInv, BuiltWhole, FileShape
  <2>2. PICK r : Whole(file.source, r) /\ file.its = <<Section(r)>>
    BY DEF ToolchainInv, BuiltWhole
  <2>3. PICK it : it = Section(r) /\ it.version = ItVersion
    <3>1. Section(r).version = ItVersion
      BY DEF Section
    <3> QED
      BY <3>1
  <2>4. Alone(file.its) /\ file.its[1] = it
    <3>1. file.its = <<it>>
      BY <2>2, <2>3
    <3>2. PICK its : its = file.its
      OBVIOUS
    <3>3. its = <<it>>
      BY <3>1, <3>2
    <3>4. Len(its) = 1 /\ its[1] = it
      BY <3>3
    <3> QED
      BY <3>2, <3>4 DEF Alone
  <2>5. Fits(it) <=> Nested(file.source)
    BY <2>1, <2>2, <2>3 DEF LoaderRight
  <2> QED
    BY <2>1, <2>3, <2>4, <2>5, VersionsAssumption DEF Loads, Alone
<1> QED
  BY <1>1, ToolchainCorrect, PTL

------------------------------------------------------------------------------
(* Reading a manifest. *)

\* What a manifest of size bytes may have been read as.
Read(size) ==
    [end : 0..size, outcome : {"ok", "no prefix", "too big", "no field", "panic"}]

(* A field that is extracted ends inside of the manifest, and what is not is
   refused; sums of u64 wrap, but never here. *)
LEMMA ExtractIs ==
  ASSUME NEW size \in Nat, NEW offset \in 0..size, NEW length \in 0..MaxU64
  PROVE  /\ ExtractField(size, offset, length) \in Read(size)
         /\ ExtractField(size, offset, length).outcome # "panic"
         /\ ExtractField(size, offset, length).outcome = "ok" =>
                ExtractField(size, offset, length).end = offset + PREFIX_SIZE + length
<1> DEFINE end == (length + PREFIX_SIZE) % (MaxU64 + 1)
           r == ExtractField(size, offset, length)
           Fails(why) == [end |-> offset, outcome |-> why]
<1>1. MaxU64 \in Nat /\ PREFIX_SIZE = 8
  BY BoundAssumption DEF PREFIX_SIZE
<1>2. ~TooBig(length) => end = length + PREFIX_SIZE
  BY <1>1 DEF TooBig
<1>3. \/ r = Fails("no prefix")
      \/ r = Fails("too big")
      \/ r = Fails("no field")
      \/ ~TooBig(length) /\ end < PREFIX_SIZE
      \/ ~TooBig(length) /\ ~(size - offset < end)
         /\ r = [end |-> offset + end, outcome |-> "ok"]
  BY DEF ExtractField
<1>4. ~(~TooBig(length) /\ end < PREFIX_SIZE)
  BY <1>1, <1>2
<1>5. ASSUME NEW why \in {"no prefix", "too big", "no field"}, r = Fails(why)
      PROVE  r \in Read(size) /\ r.outcome = why
  <2> HIDE DEF r
  <2>1. r = [end |-> offset, outcome |-> why]
    BY <1>5
  <2> QED
    BY <2>1 DEF Read
<1>6. ASSUME ~TooBig(length), ~(size - offset < end),
             r = [end |-> offset + end, outcome |-> "ok"]
      PROVE  r \in Read(size) /\ r.outcome = "ok" /\ r.end = offset + PREFIX_SIZE + length
  <2>1. end = length + PREFIX_SIZE
    BY <1>2, <1>6
  <2>2. offset + end \in 0..size /\ offset + end = offset + PREFIX_SIZE + length
    BY <1>1, <1>6, <2>1
  <2> HIDE DEF end, r
  <2> QED
    BY <1>6, <2>2 DEF Read
<1> HIDE DEF r
<1> QED
  BY <1>3, <1>4, <1>5, <1>6 DEF r

LEMMA LengthsAre ==
  ASSUME NEW lengths \in Seq(0..MaxU64)
  PROVE  Len(lengths) \in Nat /\ \A i \in 1..Len(lengths) : lengths[i] \in 0..MaxU64
<1> DEFINE U == 0..MaxU64
<1> HIDE DEF U
<1>1. lengths \in Seq(U) => Len(lengths) \in Nat /\ \A i \in 1..Len(lengths) : lengths[i] \in U
  OBVIOUS
<1> QED
  BY <1>1 DEF U

\* f reads the fields of a manifest.
Reads(f, size, lengths) ==
    \A i \in 1..Len(lengths) :
        f[i] = IF f[i - 1].outcome # "ok" THEN f[i - 1]
               ELSE ExtractField(size, f[i - 1].end, lengths[i])

(* The fields are read one after the other. *)
LEMMA ManifestFieldsIs ==
  ASSUME NEW m, m.size \in Nat, m.lengths \in Seq(0..MaxU64)
  PROVE  \E f :
            /\ f[0] = [end |-> 0, outcome |-> "ok"]
            /\ Reads(f, m.size, m.lengths)
            /\ ManifestFields(m) = f[Len(m.lengths)]
<1> DEFINE size == m.size
           lengths == m.lengths
           N == Len(lengths)
           first == [end |-> 0, outcome |-> "ok"]
           S == Read(size)
           P(f) == f = [n \in 0..N |->
                            IF n = 0 THEN first
                            ELSE IF f[n - 1].outcome # "ok" THEN f[n - 1]
                            ELSE ExtractField(size, f[n - 1].end, lengths[n])]
           next == [x \in S \X (1..N) |->
                        IF x[1].outcome # "ok" THEN x[1]
                        ELSE ExtractField(size, x[1].end, lengths[x[2]])]
<1>1. ManifestFields(m) = (CHOOSE f : P(f))[N]
  BY DEF ManifestFields
<1>2. size \in Nat /\ lengths \in Seq(0..MaxU64)
  OBVIOUS
<1> HIDE DEF size, lengths
<1>0. N \in Nat /\ \A i \in 1..N : lengths[i] \in 0..MaxU64
  BY <1>2, LengthsAre
<1>3. first \in S
  BY <1>0, <1>2 DEF Read
<1>4. \A r \in S, i \in 1..N : r.end \in 0..size
  BY DEF Read
<1>5. next \in [S \X (1..N) -> S]
  <2>1. ASSUME NEW r \in S, NEW i \in 1..N
        PROVE  (IF r.outcome # "ok" THEN r ELSE ExtractField(size, r.end, lengths[i])) \in S
    BY <1>0, <1>2, <1>4, ExtractIs
  <2> HIDE DEF S, N
  <2> QED
    BY <2>1
<1>6. \A r \in S, i \in 1..N :
        next[<<r, i>>] = IF r.outcome # "ok" THEN r ELSE ExtractField(size, r.end, lengths[i])
  <2> HIDE DEF S, N
  <2> QED
    OBVIOUS
<1> HIDE DEF next, first, S, N
<1>7. PICK f \in [0..N -> S] : f[0] = first /\ \A i \in 1..N : f[i] = next[<<f[i - 1], i>>]
  <2>1. \E f : Iterates(f, S, first, next, N)
    BY <1>0, <1>3, <1>5, IteratesExist
  <2> QED
    BY <2>1 DEF Iterates
<1>8. \A i \in 1..N : f[i] = IF f[i - 1].outcome # "ok" THEN f[i - 1]
                             ELSE ExtractField(size, f[i - 1].end, lengths[i])
  <2> SUFFICES ASSUME NEW i \in 1..N
               PROVE  f[i] = IF f[i - 1].outcome # "ok" THEN f[i - 1]
                             ELSE ExtractField(size, f[i - 1].end, lengths[i])
    OBVIOUS
  <2>1. i - 1 \in 0..N
    BY <1>0, <1>2
  <2>2. f[i - 1] \in S
    BY <2>1
  <2> QED
    BY <1>6, <1>7, <2>2
<1>9. P(f)
  <2>1. ASSUME NEW n \in 0..N
        PROVE  f[n] = IF n = 0 THEN first
                      ELSE IF f[n - 1].outcome # "ok" THEN f[n - 1]
                      ELSE ExtractField(size, f[n - 1].end, lengths[n])
    <3>1. n # 0 => n \in 1..N
      BY <1>0, <1>2
    <3> QED
      BY <1>7, <1>8, <3>1
  <2>2. f = [n \in 0..N |-> f[n]]
    OBVIOUS
  <2> QED
    BY <2>1, <2>2
<1> DEFINE c == CHOOSE g : P(g)
<1>10. P(c)
  BY <1>9
<1>11. ManifestFields(m) = c[N]
  BY <1>1 DEF first, N, S
<1> HIDE DEF c
<1>12. c[0] = first /\ Reads(c, size, lengths)
  <2>1. 0 \in 0..N /\ \A i \in 1..N : i \in 0..N /\ i # 0
    BY <1>0, <1>2
  <2> QED
    BY <1>10, <2>1 DEF Reads, N
<1> QED
  BY <1>11, <1>12 DEF first, N, size, lengths

\* g sums up what fields of these lengths take.
Sums(g, lengths) ==
    g[0] = 0 /\ \A i \in 1..Len(lengths) : g[i] = g[i - 1] + PREFIX_SIZE + lengths[i]

LEMMA SizeOfIs ==
  ASSUME NEW lengths \in Seq(0..MaxU64)
  PROVE  \E g : Sums(g, lengths) /\ SizeOf(lengths) = g[Len(lengths)]
<1> DEFINE N == Len(lengths)
           P(g) == g = [n \in 0..N |->
                            IF n = 0 THEN 0 ELSE g[n - 1] + PREFIX_SIZE + lengths[n]]
           next == [x \in Nat \X (1..N) |-> x[1] + PREFIX_SIZE + lengths[x[2]]]
<1>1. SizeOf(lengths) = (CHOOSE g : P(g))[N]
  BY DEF SizeOf
<1>2. N \in Nat /\ \A i \in 1..N : lengths[i] \in Nat
  BY BoundAssumption
<1>3. PREFIX_SIZE \in Nat
  BY DEF PREFIX_SIZE
<1> HIDE DEF N
<1>4. next \in [Nat \X (1..N) -> Nat]
  <2>1. \A x \in Nat \X (1..N) : x[1] + PREFIX_SIZE + lengths[x[2]] \in Nat
    BY <1>2, <1>3
  <2> QED
    BY <2>1
<1>5. \A n \in Nat, i \in 1..N : next[<<n, i>>] = n + PREFIX_SIZE + lengths[i]
  OBVIOUS
<1> HIDE DEF next
<1>6. PICK g \in [0..N -> Nat] : g[0] = 0 /\ \A i \in 1..N : g[i] = next[<<g[i - 1], i>>]
  <2> DEFINE S == Nat
  <2>1. 0 \in S /\ next \in [S \X (1..N) -> S]
    BY <1>4
  <2> HIDE DEF S
  <2>2. \E g : Iterates(g, S, 0, next, N)
    BY <1>2, <2>1, IteratesExist
  <2> QED
    BY <2>2 DEF S, Iterates
<1>7. ASSUME NEW i \in 1..N PROVE g[i] = g[i - 1] + PREFIX_SIZE + lengths[i]
  <2>1. i - 1 \in 0..N
    BY <1>2
  <2>2. g[i - 1] \in Nat
    BY <2>1
  <2> QED
    BY <1>5, <1>6, <2>2
<1>8. P(g)
  <2>1. ASSUME NEW n \in 0..N
        PROVE  g[n] = IF n = 0 THEN 0 ELSE g[n - 1] + PREFIX_SIZE + lengths[n]
    <3>1. n # 0 => n \in 1..N
      BY <1>2
    <3> QED
      BY <1>6, <1>7, <3>1
  <2>2. g = [n \in 0..N |-> g[n]]
    OBVIOUS
  <2> QED
    BY <2>1, <2>2
<1> DEFINE c == CHOOSE h : P(h)
<1>9. P(c)
  BY <1>8
<1>10. SizeOf(lengths) = c[N]
  BY <1>1 DEF N
<1> HIDE DEF c
<1>11. c[0] = 0 /\ \A i \in 1..N : c[i] = c[i - 1] + PREFIX_SIZE + lengths[i]
  <2>1. 0 \in 0..N /\ \A i \in 1..N : i \in 0..N /\ i # 0
    BY <1>2
  <2> QED
    BY <1>9, <2>1
<1> QED
  BY <1>10, <1>11 DEF Sums, N

(* What is read of a manifest is inside of it and never panics, and fields
   that are read are those that were summed up. *)
LEMMA ReadsInside ==
  ASSUME NEW m, m.size \in Nat, m.lengths \in Seq(0..MaxU64)
  PROVE  /\ ManifestFields(m).outcome # "panic"
         /\ ManifestFields(m).outcome = "ok" => ManifestFields(m).end = SizeOf(m.lengths)
<1> DEFINE size == m.size
           lengths == m.lengths
           N == Len(lengths)
<1>1. PICK f : /\ f[0] = [end |-> 0, outcome |-> "ok"]
               /\ Reads(f, size, lengths)
               /\ ManifestFields(m) = f[N]
  BY ManifestFieldsIs
<1>9. size \in Nat /\ lengths \in Seq(0..MaxU64)
  OBVIOUS
<1> HIDE DEF size, lengths
<1>2. PICK g : Sums(g, lengths) /\ SizeOf(lengths) = g[N]
  BY <1>9, SizeOfIs
<1>3. size \in Nat /\ N \in Nat /\ \A i \in 1..N : lengths[i] \in 0..MaxU64
  BY <1>9, LengthsAre
<1> DEFINE Fine(i) == /\ f[i] \in Read(size) /\ f[i].outcome # "panic"
                      /\ f[i].outcome = "ok" => f[i].end = g[i]
           T == {i \in Nat : i <= N => Fine(i)}
<1>4. 0 \in T
  <2>1. f[0].end = 0 /\ f[0].outcome = "ok" /\ f[0] \in Read(size)
    BY <1>1, <1>3 DEF Read
  <2>2. g[0] = 0
    BY <1>2 DEF Sums
  <2> QED
    BY <2>1, <2>2
<1>5. ASSUME NEW n \in Nat, n \in T PROVE n + 1 \in T
  <2> SUFFICES ASSUME n + 1 <= N PROVE Fine(n + 1)
    OBVIOUS
  <2>1. Fine(n) /\ n + 1 \in 1..N /\ (n + 1) - 1 = n
    BY <1>3, <1>5
  <2>2. f[n + 1] = IF f[n].outcome # "ok" THEN f[n]
                   ELSE ExtractField(size, f[n].end, lengths[n + 1])
    BY <1>1, <2>1 DEF Reads, N
  <2>3. g[n + 1] = g[n] + PREFIX_SIZE + lengths[n + 1]
    BY <1>2, <2>1 DEF Sums, N
  <2>4. CASE f[n].outcome # "ok"
    <3>1. f[n + 1] = f[n]
      BY <2>2, <2>4
    <3> QED
      BY <2>1, <2>4, <3>1
  <2>5. CASE f[n].outcome = "ok"
    <3>1. PICK offset, length : offset = f[n].end /\ length = lengths[n + 1]
      OBVIOUS
    <3>2. offset \in 0..size /\ length \in 0..MaxU64 /\ offset = g[n]
      BY <1>3, <2>1, <2>5, <3>1 DEF Read
    <3>3. f[n + 1] = ExtractField(size, offset, length)
      BY <2>2, <2>5, <3>1
    <3>4. /\ f[n + 1] \in Read(size) /\ f[n + 1].outcome # "panic"
          /\ f[n + 1].outcome = "ok" => f[n + 1].end = offset + PREFIX_SIZE + length
      BY <1>3, <3>2, <3>3, ExtractIs
    <3> QED
      BY <2>3, <3>1, <3>2, <3>4
  <2> QED
    BY <2>4, <2>5
<1> HIDE DEF T
<1>6. \A n \in Nat : n \in T
  BY <1>4, <1>5, Induction
<1>7. Fine(N)
  BY <1>3, <1>6 DEF T
<1> QED
  BY <1>1, <1>2, <1>7 DEF lengths

(* Reading a manifest never reaches beyond its bytes or before them, and
   what is read has used up every byte, however long fields claim to be
   (try_extract_prefixed_field, ModuleManifest::try_from). *)
THEOREM ManifestCorrect == Spec => []ManifestReads
<1>1. ToolchainInv => ManifestReads
  <2> SUFFICES ASSUME ToolchainInv, file # Absent, NEW m \in Range(file.source.manifests)
               PROVE  /\ ManifestFields(m).outcome # "panic"
                      /\ ReadManifest(m) = "ok" => m.size = SizeOf(m.lengths)
    BY DEF ManifestReads
  <2>1. file.source \in Sources
    BY DEF ToolchainInv, FileShape
  <2>2. m.size \in Nat /\ m.lengths \in Seq(0..MaxU64)
    BY <2>1, SourcesAssumption
  <2>3. /\ ManifestFields(m).outcome # "panic"
        /\ ManifestFields(m).outcome = "ok" => ManifestFields(m).end = SizeOf(m.lengths)
    BY <2>2, ReadsInside
  <2>4. ReadManifest(m) = "ok" =>
            ManifestFields(m).outcome = "ok" /\ ManifestFields(m).end = m.size
    BY DEF ReadManifest
  <2> QED
    BY <2>3, <2>4
<1> QED
  BY <1>1, ToolchainCorrect, PTL

=============================================================================
