--------------------------- MODULE ToolexecBuild ---------------------------
(***************************************************************************)
(* Builds under cmd/loopvec-toolexec that share one build cache.  The go   *)
(* command compiles every package of a build in a wrapper process, many at *)
(* a time, as soon as what the package imports is compiled; a process      *)
(* notes test variants of what simd depends on, decides whether to rewrite *)
(* the package, and runs the compiler.  The linker takes only objects that *)
(* were compiled against one another.  A lookup every process repeats has  *)
(* one outcome in a build: that is OnceResult, which BuildCache keeps.     *)
(***************************************************************************)
EXTENDS FiniteSets, Naturals

CONSTANTS
  Packages,      \* import paths
  Imports,       \* what the source of each package imports
  Simd,          \* package simd
  NoPackage,     \* "built for no test in particular"
  Crypto,        \* the packages isCrypto knows
  Loops,         \* the packages with a loop rewrite.File rewrites
  Environments,  \* the builds that may be started, see Environment
  Faults,        \* the lookups that may fail
  Edited,        \* the packages whose source may change between builds
  MaxBuilds      \* bound: builds that share the cache

Lookups == {"skip", "testtarget", "exports"}

(* roots are the programs to link, tests the packages tested; crypto says  *)
(* whether LOOPVEC_TOOLEXEC_CRYPTO is set, visible whether the go          *)
(* command's line can be read and NO_TARGET_CHECK is unset.  "reassoc" is  *)
(* FP_REASSOC, "unsupported" a mode such as -race.                         *)
Modes == {"plain", "reassoc", "unsupported"}
Unit == [pkg : Packages, for : Packages \union {NoPackage}]
Environment == [roots : SUBSET Unit, tests : SUBSET Packages,
                crypto : BOOLEAN, visible : BOOLEAN, mode : Modes]

ASSUME BuildAssumption ==
  /\ Simd \in Packages /\ NoPackage \notin Packages
  /\ Imports \in [Packages -> SUBSET Packages]
  /\ Crypto \subseteq Packages /\ Loops \subseteq Packages
  /\ \A e \in Environments : e \in Environment
  /\ \A e \in Environments : \A r \in e.roots : r.for \in e.tests \union {NoPackage}
  /\ Faults \subseteq Lookups /\ Edited \subseteq Packages
  /\ MaxBuilds \in Nat \ {0}

VARIABLES
  env,       \* the build under way, NoBuild between builds
  builds,    \* builds started
  cache,     \* GOCACHE: the archives compiled so far
  pc,        \* where the wrapper process of each unit is
  archive,   \* what each unit of the build came to, NoArchive until then
  variants,  \* $WORK/loopvec-toolexec/variants: the units whose archive is noted
  lookup,    \* the outcome of each lookup of the build, "open" before it
  verdict    \* what the linker said of each root

vars == <<env, builds, cache, pc, archive, variants, lookup, verdict>>

NoBuild == [roots |-> {}, tests |-> {}, crypto |-> FALSE, visible |-> FALSE, mode |-> "plain"]

-----------------------------------------------------------------------------
(* Imports, followed to the end.                                           *)
Reaches == [p \in Packages |->
  {q \in Packages : \A S \in SUBSET Packages :
                      (p \in S /\ \A r \in S : Imports[r] \subseteq S) => q \in S}]

(* go list -deps simd: what must not import simd.                          *)
SkipSet == Reaches[Simd]

(* The go command rebuilds what depends on a tested package against the    *)
(* variant compiled with its tests.                                        *)
UnitOf(p, t) == [pkg |-> p, for |-> IF t # NoPackage /\ t \in Reaches[p] THEN t ELSE NoPackage]
Direct(n) == {UnitOf(d, n.for) : d \in Imports[n.pkg]}
Program(root) == {UnitOf(p, root.for) : p \in Reaches[root.pkg]}
Units == UNION {Program(r) : r \in env.roots}

(* An archive has the mode it was compiled in, its code, the "source" or   *)
(* rewritten ("lanes", or "regrouped" where float sums are), and ties to   *)
(* the archives it was compiled against.  A tie is to the export data: who *)
(* it is, what was compiled, and whether it was instrumented.              *)
Tie(a) == [pkg |-> a.pkg, for |-> a.for, instrumented |-> a.mode = "unsupported", code |-> a.code]
Ties == [pkg : Packages, for : Packages \union {NoPackage}, instrumented : BOOLEAN,
         code : {"source", "lanes", "regrouped"}]
Archive == [pkg : Packages, for : Packages \union {NoPackage}, mode : Modes,
            code : {"source", "lanes", "regrouped"}, ties : SUBSET Ties]
NoArchive == [pkg |-> NoPackage]
Plain(p) == [pkg |-> p, for |-> NoPackage, instrumented |-> FALSE, code |-> "source"]

-----------------------------------------------------------------------------
Init ==
  /\ env = NoBuild /\ builds = 0
  /\ cache = {}
  /\ pc = [n \in Unit |-> "wait"]
  /\ archive = [n \in Unit |-> NoArchive]
  /\ variants = {}
  /\ lookup = [l \in Lookups |-> "open"]
  /\ verdict = [n \in Unit |-> "none"]

(* The work directory, and with it every lookup, is new with each build.   *)
StartBuild(e) ==
  /\ env = NoBuild /\ builds < MaxBuilds
  /\ env' = e
  /\ builds' = builds + 1
  /\ pc' = [n \in Unit |-> "wait"]
  /\ archive' = [n \in Unit |-> NoArchive]
  /\ variants' = {}
  /\ lookup' = [l \in Lookups |-> "open"]
  /\ verdict' = [n \in Unit |-> "none"]
  /\ UNCHANGED cache

(* What the wrapper reports to -V=full: nothing of it depends on the mode. *)
IdentityOfWrapperOnly(mode) == IF mode = "reassoc" THEN "plain" ELSE mode

(* printVersion: the part of the environment the go command is told of.    *)
(* An unsupported mode is a flag of its own to the compiler.               *)
Identity(mode) == mode

(* The archives the go command takes for this unit: same source, same      *)
(* tool, same imports.                                                     *)
Hits(n) ==
  {a \in cache : /\ a.pkg = n.pkg /\ a.for = n.for
                 /\ Identity(a.mode) = Identity(env.mode)
                 /\ a.ties = {Tie(archive[d]) : d \in Direct(n)}}

Ready(n) ==
  /\ n \in Units /\ pc[n] = "wait"
  /\ \A d \in Direct(n) : archive[d] # NoArchive

UseCached(n) ==
  /\ Ready(n)
  /\ \E a \in Hits(n) : archive' = [archive EXCEPT ![n] = a]
  /\ pc' = [pc EXCEPT ![n] = "cached"]
  /\ UNCHANGED <<env, builds, cache, variants, lookup, verdict>>

StartCompile(n) ==
  /\ Ready(n) /\ Hits(n) = {}
  /\ pc' = [pc EXCEPT ![n] = IF env.mode = "unsupported" THEN "source" ELSE "record"]
  /\ UNCHANGED <<env, builds, cache, archive, variants, lookup, verdict>>

-----------------------------------------------------------------------------
(* cached: the first process to need a lookup settles it.                  *)
Outcome(l) ==
  IF l # "testtarget" THEN "ok"
  ELSE IF env.visible /\ env.tests \intersect SkipSet # {} THEN "yes" ELSE "no"

Compiled(root) == \A n \in Program(root) : archive[n] # NoArchive

Needs(l) ==
  \/ l = "skip" /\ \E n \in Unit : pc[n] \in {"record", "consider"}
  \/ l = "testtarget" /\ \E n \in Unit : pc[n] = "target"
  \/ l = "exports" /\ \/ \E n \in Unit : pc[n] = "exports"
                      \/ \E r \in env.roots : Compiled(r)

(* The nested build of simd behind "exports" goes through the cache.       *)
NestedMode == IF env.mode = "unsupported" THEN "plain" ELSE env.mode
NestedHits(p) == {a \in cache : a.pkg = p /\ a.for = NoPackage /\ a.mode = NestedMode}
Nested(p) ==
  IF NestedHits(p) # {}
  THEN CHOOSE a \in NestedHits(p) : TRUE
  ELSE [pkg |-> p, for |-> NoPackage, mode |-> NestedMode, code |-> "source",
        ties |-> {Plain(d) : d \in Imports[p]}]
Exports == {Nested(p) : p \in SkipSet}

LookUp(l) ==
  /\ lookup[l] = "open" /\ Needs(l)
  /\ \E out \in {Outcome(l)} \union (IF l \in Faults THEN {"error"} ELSE {}) :
       /\ lookup' = [lookup EXCEPT ![l] = out]
       /\ cache' = IF l = "exports" /\ out = "ok" THEN cache \union Exports ELSE cache
  /\ UNCHANGED <<env, builds, pc, archive, variants, verdict>>

-----------------------------------------------------------------------------
(* variantDependency: an import whose archive is among those noted.        *)
VariantDependency(n) == Direct(n) \intersect variants # {}

(* A slip: only the tested package itself is noted.                        *)
NotesTestedOnly(n) == n.pkg \in SkipSet /\ n.for = n.pkg

(* What recordVariant notes: a package simd depends on, compiled with its  *)
(* tests or against another such package.                                  *)
Notes(n) == n.pkg \in SkipSet /\ (n.for = n.pkg \/ VariantDependency(n))

RecordVariant(n) ==
  /\ pc[n] = "record" /\ lookup["skip"] # "open"
  /\ variants' = IF lookup["skip"] = "ok" /\ Notes(n) THEN variants \union {n} ELSE variants
  /\ pc' = [pc EXCEPT ![n] = "consider"]
  /\ UNCHANGED <<env, builds, cache, archive, lookup, verdict>>

(* A slip: whether simd depends on the package is not asked.               *)
LeavesCryptoAlone(n) == lookup["skip"] = "error" \/ (n.pkg \in Crypto /\ ~env.crypto)

(* The packages tryRewrite leaves alone whatever is in them.               *)
LeftAlone(n) ==
  \/ lookup["skip"] = "error"
  \/ n.pkg \in SkipSet
  \/ n.pkg \in Crypto /\ ~env.crypto

Consider(n) ==
  /\ pc[n] = "consider" /\ lookup["skip"] # "open"
  /\ pc' = [pc EXCEPT ![n] = IF LeftAlone(n) THEN "source" ELSE "target"]
  /\ UNCHANGED <<env, builds, cache, archive, variants, lookup, verdict>>

(* A slip: what the answer says is not looked at.                          *)
TestsWhatever(n) == lookup["testtarget"] # "open"

(* testsSimdDependency: a lookup that fails counts as no.                  *)
TestsNoSimdDependency(n) == lookup["testtarget"] \in {"no", "error"}

CheckTarget(n) ==
  /\ pc[n] = "target" /\ lookup["testtarget"] # "open"
  /\ pc' = [pc EXCEPT ![n] = IF TestsNoSimdDependency(n) /\ n.pkg \in Loops THEN "exports" ELSE "source"]
  /\ UNCHANGED <<env, builds, cache, archive, variants, lookup, verdict>>

(* The variants file is read late, after the lookup of simd's archives.    *)
(* verify may still reject what was rewritten, or a file not be written.   *)
Rewrite(n) ==
  /\ pc[n] = "exports" /\ lookup["exports"] # "open"
  /\ \/ pc' = [pc EXCEPT ![n] = "source"]
     \/ /\ lookup["exports"] = "ok" /\ ~VariantDependency(n)
        /\ pc' = [pc EXCEPT ![n] = "rewritten"]
  /\ UNCHANGED <<env, builds, cache, archive, variants, lookup, verdict>>

(* execTool, and the go command files what the compiler wrote.             *)
Compile(n) ==
  /\ pc[n] \in {"source", "rewritten"}
  /\ LET code == IF pc[n] = "source" THEN "source"
                 ELSE IF env.mode = "reassoc" THEN "regrouped" ELSE "lanes"
         a == [pkg |-> n.pkg, for |-> n.for, mode |-> env.mode, code |-> code,
               ties |-> {Tie(archive[d]) : d \in Direct(n)}]
     IN /\ archive' = [archive EXCEPT ![n] = a]
        /\ cache' = cache \union {a}
  /\ pc' = [pc EXCEPT ![n] = "done"]
  /\ UNCHANGED <<env, builds, variants, lookup, verdict>>

-----------------------------------------------------------------------------
(* The link's importcfg: the program's archives and, for the packages it   *)
(* does not provide, simd's.                                               *)
Given(root) == {archive[n] : n \in Program(root)}
Added(root) == {a \in Exports : \A b \in Given(root) : a.pkg # b.pkg}

(* A slip: simd is added only for a package this build rewrote.            *)
ExtendedForRewrites(root) ==
  Given(root) \union
    (IF \E n \in Program(root) : pc[n] = "done" /\ archive[n].code # "source" THEN Added(root) ELSE {})

Extended(root) ==
  Given(root) \union
    (IF lookup["exports"] = "ok"
     THEN Added(root) ELSE {})

(* What an archive is tied to, simd included once it is rewritten.         *)
TiesOf(a) ==
  a.ties \union (IF a.code = "source" THEN {} ELSE {Plain(Simd)})

(* The linker follows imports from the root and rejects an archive it has  *)
(* not got, or not the one an importer was compiled against.               *)
Loaded(root) ==
  {a \in Extended(root) :
     a \in Given(root) \/ \E b \in Given(root) : b.code # "source"}
Accepts(root) == \A a \in Loaded(root) : \A t \in TiesOf(a) : \E b \in Extended(root) : Tie(b) = t

Link(root) ==
  /\ root \in env.roots /\ verdict[root] = "none"
  /\ Compiled(root)
  /\ lookup["exports"] # "open"
  /\ verdict' = [verdict EXCEPT ![root] = IF Accepts(root) THEN "linked" ELSE "rejected"]
  /\ UNCHANGED <<env, builds, cache, pc, archive, variants, lookup>>

EndBuild ==
  /\ env # NoBuild
  /\ \A r \in env.roots : verdict[r] # "none"
  /\ env' = NoBuild
  /\ UNCHANGED <<builds, cache, pc, archive, variants, lookup, verdict>>

(* A new version of a package: no archive of the old one is taken again.   *)
Edit(p) ==
  /\ env = NoBuild
  /\ cache' = {a \in cache : a.pkg # p}
  /\ UNCHANGED <<env, builds, pc, archive, variants, lookup, verdict>>

AllBuilt ==
  /\ env = NoBuild /\ builds = MaxBuilds
  /\ UNCHANGED vars

CompileStep(n) ==
  \/ UseCached(n) \/ StartCompile(n) \/ RecordVariant(n) \/ Consider(n)
  \/ CheckTarget(n) \/ Rewrite(n) \/ Compile(n)

Next ==
  \/ \E e \in Environments : StartBuild(e)
  \/ \E l \in Lookups : LookUp(l)
  \/ \E n \in Unit : CompileStep(n) \/ Link(n)
  \/ EndBuild
  \/ \E p \in Edited : Edit(p)
  \/ AllBuilt

Spec == Init /\ [][Next]_vars

-----------------------------------------------------------------------------
TypeOK ==
  /\ env \in Environments \union {NoBuild}
  /\ builds \in 0..MaxBuilds
  /\ cache \subseteq Archive
  /\ pc \in [Unit -> {"wait", "record", "consider", "target", "exports", "source", "rewritten", "done", "cached"}]
  /\ archive \in [Unit -> Archive \union {NoArchive}]
  /\ variants \subseteq Unit
  /\ lookup \in [Lookups -> {"open", "ok", "yes", "no", "error"}]
  /\ verdict \in [Unit -> {"none", "linked", "rejected"}]

(* Rewritten code imports simd (simd.go, skipSet): no build, whatever its  *)
(* settings and whatever lookup fails, leaves rewritten code of a package  *)
(* simd depends on in the cache, where the nested build of simd would find *)
(* it.                                                                     *)
NoImportCycle == \A a \in cache : a.code # "source" => a.pkg \notin SkipSet

(* "The wrapper can only change what gets compiled, never make a working   *)
(* build fail" (compile.go): in a cache of its own, the linker rejects a   *)
(* program of a build only where toolexec.md says it may, in a test of     *)
(* something simd depends on that the wrapper was not told of.             *)
Untold == env.tests \intersect SkipSet # {} /\ lookup["testtarget"] # "yes"
LinksUnlessUntold ==
  builds = 1 => \A r \in env.roots : verdict[r] = "rejected" => Untold

(* In a cache that earlier builds filled, with whatever settings, the      *)
(* linker takes every program too when nothing simd depends on is tested   *)
(* and simd's archives were found: cached rewritten code needs them.       *)
LinksFromCache ==
  (env.tests \intersect SkipSet = {} /\ lookup["exports"] = "ok") =>
    \A r \in env.roots : verdict[r] # "rejected"

(* "recordVariant protects the packages built against a variant"           *)
(* (testtarget.go): in a cache of its own, no rewritten package of a build *)
(* was compiled against a test variant of something simd depends on.       *)
ProtectsVariants ==
  builds = 1 => \A n \in Units :
    (archive[n] # NoArchive /\ archive[n].code # "source") =>
      \A t \in archive[n].ties : t.pkg \in SkipSet => t.for = NoPackage

(* "Packages are left alone when ... they are cryptographic" unless the    *)
(* build asks for them (toolexec.md:23-36): no archive such a build takes  *)
(* for a cryptographic package is rewritten.  printVersion leaves the      *)
(* setting out of the identity, so one a build that asked left in the      *)
(* cache is taken.                                                         *)
CryptoLeftAlone ==
  ~env.crypto =>
    \A n \in Units : (archive[n] # NoArchive /\ n.pkg \in Crypto) => archive[n].code = "source"

(* Float sums are regrouped only in builds that ask for it: printVersion   *)
(* makes the setting part of the identity archives are cached under.       *)
RegroupsOnRequest ==
  \A n \in Units : (archive[n] # NoArchive /\ archive[n].code = "regrouped") => env.mode = "reassoc"
=============================================================================
