------------------------ MODULE ToolexecBuildProofs ------------------------
(***************************************************************************)
(* Theorems about ToolexecBuild for every import graph, every set of       *)
(* builds and every lookup that may fail: what the cache never holds, and  *)
(* what the linker never rejects, with a cache of the build's own or with  *)
(* one that other builds filled.                                           *)
(***************************************************************************)
EXTENDS ToolexecBuild, TLAPS

Labels == {"wait", "record", "consider", "target", "exports", "source", "rewritten", "done", "cached"}
Recorded == {"consider", "target", "exports", "source", "rewritten", "done"}
ToBeRewritten == {"target", "exports", "rewritten"}
Codes == {"source", "lanes", "regrouped"}
Closed(S) == \A r \in S : Imports[r] \subseteq S

(* Any number of builds: what is on its way to be rewritten is nothing     *)
(* simd depends on; a unit has an archive once its process is through, and *)
(* none starts before what the unit imports has one.                       *)
PlaceInv ==
  \A n \in Unit :
    /\ pc[n] \in ToBeRewritten => n.pkg \notin SkipSet
    /\ archive[n] # NoArchive <=> pc[n] \in {"done", "cached"}
    /\ pc[n] # "wait" => \A d \in Direct(n) : archive[d] # NoArchive

(* What the cache holds, and that the archives of a build are its own.     *)
CacheInv ==
  /\ NoImportCycle
  /\ \A a \in cache : a.code = "regrouped" => a.mode = "reassoc"

ArchiveOf(n) ==
  /\ archive[n] \in cache
  /\ archive[n].pkg = n.pkg /\ archive[n].for = n.for
  /\ archive[n].mode = env.mode
  /\ archive[n].ties = {Tie(archive[d]) : d \in Direct(n)}
ArchiveInv == \A n \in Unit : (env # NoBuild /\ archive[n] # NoArchive) => ArchiveOf(n)

GeneralInv == TypeOK /\ PlaceInv /\ CacheInv /\ ArchiveInv

-----------------------------------------------------------------------------
(* What a package reaches: itself, its imports, and what they reach.       *)
LEMMA ReachesSelf == \A p \in Packages : p \in Reaches[p] /\ Reaches[p] \subseteq Packages
  BY DEF Reaches

LEMMA ReachesClosed == \A p \in Packages : Closed(Reaches[p])
<1> SUFFICES ASSUME NEW p \in Packages, NEW r \in Reaches[p], NEW q \in Imports[r]
             PROVE  q \in Reaches[p]
  BY DEF Closed
<1>1. r \in Packages /\ q \in Packages
  BY BuildAssumption DEF Reaches
<1>2. ASSUME NEW S \in SUBSET Packages, p \in S, \A s \in S : Imports[s] \subseteq S
      PROVE  q \in S
  BY <1>2, <1>1 DEF Reaches
<1> QED
  BY <1>1, <1>2 DEF Reaches

LEMMA ReachesLeast ==
  ASSUME NEW p \in Packages, NEW S \in SUBSET Packages, p \in S, Closed(S)
  PROVE  Reaches[p] \subseteq S
  BY DEF Reaches, Closed

LEMMA ReachesThroughImport ==
  ASSUME NEW p \in Packages, NEW t \in Reaches[p], t # p
  PROVE  \E d \in Imports[p] : t \in Reaches[d]
<1> DEFINE S == {p} \union UNION {Reaches[d] : d \in Imports[p]}
<1>1. Imports[p] \subseteq Packages
  BY BuildAssumption
<1>2. S \subseteq Packages
  BY <1>1, ReachesSelf
<1>3. Closed(S)
  <2> SUFFICES ASSUME NEW r \in S, NEW q \in Imports[r] PROVE q \in S
    BY DEF Closed
  <2>1. CASE r = p
    BY <2>1, <1>1, ReachesSelf
  <2>2. CASE r # p
    <3>1. PICK d \in Imports[p] : r \in Reaches[d]
      BY <2>2
    <3>2. q \in Reaches[d]
      BY <3>1, <1>1, ReachesClosed DEF Closed
    <3> QED
      BY <3>2
  <2> QED
    BY <2>1, <2>2
<1>4. t \in S
  BY <1>2, <1>3, ReachesLeast
<1> QED
  BY <1>4

(* simd depends on what something it depends on reaches.                   *)
LEMMA SkipSetClosed ==
  /\ SkipSet \subseteq Packages /\ Simd \in SkipSet /\ Closed(SkipSet)
  /\ \A p \in SkipSet : Reaches[p] \subseteq SkipSet
<1>1. SkipSet \subseteq Packages /\ Simd \in SkipSet /\ Closed(SkipSet)
  BY BuildAssumption, ReachesSelf, ReachesClosed DEF SkipSet
<1> QED
  BY <1>1, ReachesLeast

-----------------------------------------------------------------------------
(* The units of a program are those of the packages its root reaches, and  *)
(* what a unit imports is a unit of the same program.                      *)
LEMMA UnitsOfProgram ==
  ASSUME NEW r \in Unit, NEW n \in Program(r)
  PROVE  /\ n \in Unit
         /\ n.for \in {r.for, NoPackage}
         /\ n.for # NoPackage => n.for \in Reaches[n.pkg]
         /\ Direct(n) \subseteq Program(r)
<1>1. PICK p \in Reaches[r.pkg] : n = UnitOf(p, r.for)
  BY DEF Program
<1>2. r.pkg \in Packages /\ r.for \in Packages \union {NoPackage} /\ p \in Packages
  BY ReachesSelf DEF Unit
<1>3. /\ n.pkg = p /\ n.for \in {r.for, NoPackage} /\ n \in Unit
      /\ n.for # NoPackage => n.for = r.for /\ r.for \in Reaches[p]
      /\ n.for = NoPackage => r.for = NoPackage \/ r.for \notin Reaches[p]
  BY <1>1, <1>2, BuildAssumption DEF UnitOf, Unit
<1>4. ASSUME NEW d \in Imports[p] PROVE UnitOf(d, n.for) \in Program(r)
  <2>1. d \in Packages /\ d \in Reaches[r.pkg] /\ Reaches[d] \subseteq Reaches[p]
    <3>1. d \in Packages /\ d \in Reaches[p] /\ d \in Reaches[r.pkg]
      BY <1>2, <1>4, ReachesClosed, ReachesSelf DEF Closed
    <3> QED
      BY <3>1, <1>2, ReachesLeast, ReachesClosed, ReachesSelf
  <2>2. UnitOf(d, n.for) = UnitOf(d, r.for)
    BY <2>1, <1>3 DEF UnitOf
  <2> QED
    BY <2>1, <2>2 DEF Program
<1> QED
  BY <1>3, <1>4 DEF Direct

LEMMA DirectUnits ==
  ASSUME NEW n \in Unit
  PROVE  /\ Direct(n) \subseteq Unit
         /\ \A d \in Imports[n.pkg] : UnitOf(d, n.for) \in Direct(n) /\ UnitOf(d, n.for).pkg = d
         /\ \A d \in Direct(n) : d.pkg \in Imports[n.pkg] /\ d.for \in {n.for, NoPackage}
  BY BuildAssumption DEF Direct, UnitOf, Unit

LEMMA UnitsTyped ==
  ASSUME env \in Environments \union {NoBuild}
  PROVE  /\ env \in Environment
         /\ env.roots \subseteq Unit /\ Units \subseteq Unit
         /\ \A n \in Units : /\ Direct(n) \subseteq Units
                             /\ n.for # NoPackage => n.for \in Reaches[n.pkg]
         /\ \A r \in env.roots : r.for \in env.tests \union {NoPackage}
<1>1. env \in Environment /\ \A r \in env.roots : r.for \in env.tests \union {NoPackage}
  <2>1. CASE env \in Environments
    BY <2>1, BuildAssumption
  <2>2. CASE env = NoBuild
    BY <2>2 DEF NoBuild, Environment, Modes
  <2> QED
    BY <2>1, <2>2
<1>2. env.roots \subseteq Unit
  BY <1>1 DEF Environment
<1> QED
  BY <1>1, <1>2, UnitsOfProgram DEF Units

-----------------------------------------------------------------------------
(* What the nested build of simd leaves: archives from the cache, or new   *)
(* ones of sources.                                                        *)
LEMMA ExportsAre ==
  ASSUME TypeOK, NEW a \in Exports
  PROVE  /\ a.pkg \in SkipSet /\ a.for = NoPackage /\ a.mode = NestedMode /\ a \in Archive
         /\ a \notin cache => a.code = "source" /\ a.ties = {Plain(d) : d \in Imports[a.pkg]}
<1>1. PICK p \in SkipSet : a = Nested(p)
  BY DEF Exports
<1>2. NestedMode \in Modes
  <2>1. env.mode \in Modes
    BY UnitsTyped DEF TypeOK, Environment
  <2> QED
    BY <2>1 DEF NestedMode, Modes
<1>3. CASE NestedHits(p) # {}
  <2>1. a \in NestedHits(p)
    BY <1>1, <1>3 DEF Nested
  <2> QED
    BY <2>1, <1>1 DEF NestedHits, TypeOK
<1>4. CASE NestedHits(p) = {}
  <2>1. a = [pkg |-> p, for |-> NoPackage, mode |-> NestedMode, code |-> "source",
             ties |-> {Plain(d) : d \in Imports[p]}]
    BY <1>1, <1>4 DEF Nested
  <2>2. p \in Packages /\ Imports[p] \subseteq Packages
    BY SkipSetClosed, BuildAssumption
  <2>3. {Plain(d) : d \in Imports[p]} \subseteq Ties
    <3> SUFFICES ASSUME NEW d \in Imports[p] PROVE Plain(d) \in Ties
      OBVIOUS
    <3> QED
      BY <2>2 DEF Plain, Ties
  <2> QED
    BY <1>1, <1>2, <2>1, <2>2, <2>3 DEF Archive
<1> QED
  BY <1>3, <1>4

LEMMA TieTyped ==
  ASSUME NEW a \in Archive
  PROVE  Tie(a) \in Ties /\ Tie(a).pkg = a.pkg /\ Tie(a).for = a.for
  BY DEF Tie, Ties, Archive

(* What the compiler makes of a unit.                                      *)
CompiledCode(n) ==
  IF pc[n] = "source" THEN "source"
  ELSE IF env.mode = "reassoc" THEN "regrouped" ELSE "lanes"
Result(n) ==
  [pkg |-> n.pkg, for |-> n.for, mode |-> env.mode, code |-> CompiledCode(n),
   ties |-> {Tie(archive[d]) : d \in Direct(n)}]

LEMMA ResultTyped ==
  ASSUME TypeOK, NEW n \in Unit, \A d \in Direct(n) : archive[d] # NoArchive
  PROVE  Result(n) \in Archive /\ Result(n) # NoArchive
<1>1. CompiledCode(n) \in Codes
  BY DEF CompiledCode, Codes
<1>2. {Tie(archive[d]) : d \in Direct(n)} \subseteq Ties
  <2> SUFFICES ASSUME NEW d \in Direct(n) PROVE Tie(archive[d]) \in Ties
    OBVIOUS
  <2>1. archive[d] \in Archive
    BY DirectUnits DEF TypeOK
  <2> QED
    BY <2>1, TieTyped
<1>3. env.mode \in Modes
  BY UnitsTyped DEF TypeOK, Environment
<1>4. n.pkg \in Packages /\ n.for \in Packages \union {NoPackage}
  BY DEF Unit
<1>5. Result(n) \in Archive
  BY <1>1, <1>2, <1>3, <1>4 DEF Result, Archive, Codes
<1> QED
  BY <1>4, <1>5, BuildAssumption DEF Archive, NoArchive

LEMMA GeneralInit == Init => GeneralInv
<1> SUFFICES ASSUME Init PROVE GeneralInv
  OBVIOUS
<1>1. TypeOK
  BY BuildAssumption DEF Init, TypeOK, Lookups
<1>2. PlaceInv
  BY DEF Init, PlaceInv, ToBeRewritten
<1>3. CacheInv
  BY DEF Init, CacheInv, NoImportCycle
<1>4. ArchiveInv
  BY DEF Init, ArchiveInv
<1> QED
  BY <1>1, <1>2, <1>3, <1>4 DEF GeneralInv

(* What is in the cache after the nested build of simd has gone through it.*)
LEMMA LookUpKeeps ==
  ASSUME GeneralInv, NEW l \in Lookups, LookUp(l)
  PROVE  GeneralInv'
<1>1. cache \subseteq cache' /\ cache' \subseteq cache \union Exports
  BY DEF LookUp
<1>2. TypeOK'
  <2>1. cache' \subseteq Archive
    BY <1>1, ExportsAre DEF GeneralInv, TypeOK
  <2>2. lookup' \in [Lookups -> {"open", "ok", "yes", "no", "error"}]
    BY DEF GeneralInv, TypeOK, LookUp, Outcome
  <2> QED
    BY <2>1, <2>2 DEF GeneralInv, TypeOK, LookUp
<1>3. PlaceInv'
  BY DEF GeneralInv, PlaceInv, LookUp
<1>4. CacheInv'
  <2> SUFFICES ASSUME NEW a \in cache'
               PROVE  /\ a.code # "source" => a.pkg \notin SkipSet
                      /\ a.code = "regrouped" => a.mode = "reassoc"
    BY DEF CacheInv, NoImportCycle
  <2>1. CASE a \in cache
    BY <2>1 DEF GeneralInv, CacheInv, NoImportCycle
  <2>2. CASE a \notin cache
    BY <2>2, <1>1, ExportsAre DEF GeneralInv
  <2> QED
    BY <2>1, <2>2
<1>5. ArchiveInv'
  BY <1>1 DEF GeneralInv, ArchiveInv, ArchiveOf, LookUp
<1> QED
  BY <1>2, <1>3, <1>4, <1>5 DEF GeneralInv

(* A step that gives a unit its archive.                                   *)
LEMMA ArchiveKeeps ==
  ASSUME GeneralInv, NEW n \in Unit, pc[n] \notin {"done", "cached"},
         \A d \in Direct(n) : archive[d] # NoArchive,
         NEW a \in Archive, archive' = [archive EXCEPT ![n] = a],
         NEW where \in {"done", "cached"}, pc' = [pc EXCEPT ![n] = where],
         cache \subseteq cache', a \in cache', env' = env,
         a.pkg = n.pkg /\ a.for = n.for /\ a.mode = env.mode,
         a.ties = {Tie(archive[d]) : d \in Direct(n)}
  PROVE  PlaceInv' /\ ArchiveInv'
<1>1. a # NoArchive
  BY BuildAssumption DEF Archive, NoArchive
<1>2. /\ archive'[n] = a
      /\ \A m \in Unit : m # n => archive'[m] = archive[m] /\ pc'[m] = pc[m]
      /\ pc'[n] = where
      /\ archive[n] = NoArchive
  BY DEF GeneralInv, TypeOK, PlaceInv
<1>3. ASSUME NEW m \in Unit, \A d \in Direct(m) : archive[d] # NoArchive
      PROVE  \A d \in Direct(m) : archive'[d] = archive[d]
  BY <1>2, <1>3, DirectUnits
<1>4. PlaceInv'
  <2> SUFFICES ASSUME NEW m \in Unit
               PROVE  /\ pc'[m] \in ToBeRewritten => m.pkg \notin SkipSet
                      /\ archive'[m] # NoArchive <=> pc'[m] \in {"done", "cached"}
                      /\ pc'[m] # "wait" => \A d \in Direct(m) : archive'[d] # NoArchive
    BY DEF PlaceInv
  <2>1. CASE m = n
    BY <2>1, <1>1, <1>2, <1>3 DEF ToBeRewritten
  <2>2. CASE m # n
    BY <2>2, <1>2, <1>3 DEF GeneralInv, PlaceInv
  <2> QED
    BY <2>1, <2>2
<1>5. ArchiveInv'
  <2> SUFFICES ASSUME NEW m \in Unit, env # NoBuild, archive'[m] # NoArchive
               PROVE  ArchiveOf(m)'
    BY DEF ArchiveInv
  <2>1. CASE m = n
    <3>1. {Tie(archive[d]) : d \in Direct(n)} = {Tie(archive'[d]) : d \in Direct(n)}
      BY <1>3
    <3> QED
      BY <2>1, <1>2, <3>1 DEF ArchiveOf
  <2>2. CASE m # n
    <3>1. archive[m] # NoArchive /\ \A d \in Direct(m) : archive[d] # NoArchive
      BY <2>2, <1>2 DEF GeneralInv, PlaceInv
    <3>2. {Tie(archive[d]) : d \in Direct(m)} = {Tie(archive'[d]) : d \in Direct(m)}
      BY <1>3, <3>1
    <3> QED
      BY <2>2, <1>2, <3>1, <3>2 DEF ArchiveOf, GeneralInv, ArchiveInv
  <2> QED
    BY <2>1, <2>2
<1> QED
  BY <1>4, <1>5

(* A step of a process that neither compiles nor fetches an archive.       *)
LEMMA MoveKeeps ==
  ASSUME GeneralInv, NEW n \in Unit, NEW where \in Labels \ {"done", "cached"},
         pc' = [pc EXCEPT ![n] = where],
         where \in ToBeRewritten => n.pkg \notin SkipSet,
         pc[n] \notin {"done", "cached"}, \A d \in Direct(n) : archive[d] # NoArchive,
         variants' \subseteq Unit, UNCHANGED <<env, builds, cache, archive, lookup, verdict>>
  PROVE  GeneralInv'
<1>1. TypeOK'
  BY DEF GeneralInv, TypeOK, Labels
<1>2. PlaceInv'
  BY DEF GeneralInv, TypeOK, PlaceInv, Labels
<1>3. CacheInv'
  BY DEF GeneralInv, CacheInv, NoImportCycle
<1>4. ArchiveInv'
  BY DEF GeneralInv, ArchiveInv, ArchiveOf
<1> QED
  BY <1>1, <1>2, <1>3, <1>4 DEF GeneralInv

LEMMA CompileStepKeeps ==
  ASSUME GeneralInv, NEW n \in Unit, CompileStep(n)
  PROVE  GeneralInv'
<1>1. TypeOK /\ PlaceInv /\ CacheInv /\ ArchiveInv
  BY DEF GeneralInv
<1>2. CASE UseCached(n)
  <2>1. PICK a \in Hits(n) : archive' = [archive EXCEPT ![n] = a]
    BY <1>2 DEF UseCached
  <2>2. /\ a \in cache /\ a \in Archive /\ a.pkg = n.pkg /\ a.for = n.for /\ a.mode = env.mode
        /\ a.ties = {Tie(archive[d]) : d \in Direct(n)}
    BY <2>1, <1>1 DEF Hits, Identity, TypeOK
  <2>3. pc[n] = "wait" /\ \A d \in Direct(n) : archive[d] # NoArchive
    BY <1>2 DEF UseCached, Ready
  <2>4. PlaceInv' /\ ArchiveInv'
    BY <1>2, <2>1, <2>2, <2>3, ArchiveKeeps DEF UseCached
  <2>5. TypeOK' /\ CacheInv'
    BY <1>1, <1>2, <2>1, <2>2 DEF UseCached, TypeOK, CacheInv, NoImportCycle
  <2> QED
    BY <2>4, <2>5 DEF GeneralInv
<1>3. CASE Compile(n)
  <2>1. /\ pc[n] \in {"source", "rewritten"} /\ \A d \in Direct(n) : archive[d] # NoArchive
        /\ pc' = [pc EXCEPT ![n] = "done"]
        /\ UNCHANGED <<env, builds, variants, lookup, verdict>>
    BY <1>1, <1>3 DEF Compile, PlaceInv
  <2>2. archive' = [archive EXCEPT ![n] = Result(n)] /\ cache' = cache \union {Result(n)}
    BY <1>3 DEF Compile, Result, CompiledCode
  <2>3. Result(n) \in Archive /\ Result(n) # NoArchive
    BY <1>1, <2>1, ResultTyped
  <2>4. PlaceInv' /\ ArchiveInv'
    <3>1. /\ Result(n).pkg = n.pkg /\ Result(n).for = n.for /\ Result(n).mode = env.mode
          /\ Result(n).ties = {Tie(archive[d]) : d \in Direct(n)}
      BY DEF Result
    <3> QED
      BY <2>1, <2>2, <2>3, <3>1, ArchiveKeeps
  <2>5. TypeOK'
    BY <1>1, <2>1, <2>2, <2>3 DEF TypeOK
  <2>6. CacheInv'
    <3>1. Result(n).code # "source" => Result(n).pkg \notin SkipSet
      <4>1. pc[n] = "source" => Result(n).code = "source"
        BY DEF Result, CompiledCode
      <4>2. pc[n] = "rewritten" => n.pkg \notin SkipSet
        BY <1>1 DEF PlaceInv, ToBeRewritten
      <4> QED
        BY <4>1, <4>2, <2>1 DEF Result
    <3>2. Result(n).code = "regrouped" => Result(n).mode = "reassoc"
      BY DEF Result, CompiledCode
    <3> QED
      BY <3>1, <3>2, <2>2, <1>1 DEF CacheInv, NoImportCycle
  <2> QED
    BY <2>4, <2>5, <2>6 DEF GeneralInv
<1>4. CASE StartCompile(n) \/ RecordVariant(n) \/ Consider(n) \/ CheckTarget(n) \/ Rewrite(n)
  <2>1. PICK where \in Labels \ {"done", "cached"} : pc' = [pc EXCEPT ![n] = where]
    BY <1>4 DEF StartCompile, RecordVariant, Consider, CheckTarget, Rewrite, Labels
  <2>2. pc[n] \notin {"done", "cached"} /\ \A d \in Direct(n) : archive[d] # NoArchive
    BY <1>4, <1>1 DEF StartCompile, RecordVariant, Consider, CheckTarget, Rewrite, Ready, PlaceInv
  <2>3. where \in ToBeRewritten => n.pkg \notin SkipSet
    <3>1. pc'[n] = where
      BY <2>1, <1>1 DEF TypeOK
    <3>2. pc'[n] \in ToBeRewritten => pc[n] \in ToBeRewritten \/ n.pkg \notin SkipSet
      BY <1>4, <1>1 DEF StartCompile, RecordVariant, Consider, CheckTarget, Rewrite, ToBeRewritten,
                        LeftAlone, TypeOK
    <3> QED
      BY <3>1, <3>2, <1>1 DEF PlaceInv
  <2>4. variants' \subseteq Unit /\ UNCHANGED <<env, builds, cache, archive, lookup, verdict>>
    BY <1>4, <1>1 DEF StartCompile, RecordVariant, Consider, CheckTarget, Rewrite, TypeOK
  <2> QED
    BY <2>1, <2>2, <2>3, <2>4, MoveKeeps
<1> QED
  BY <1>2, <1>3, <1>4 DEF CompileStep

LEMMA GeneralNext == GeneralInv /\ [Next]_vars => GeneralInv'
<1> SUFFICES ASSUME GeneralInv, [Next]_vars PROVE GeneralInv'
  OBVIOUS
<1>1. TypeOK /\ PlaceInv /\ CacheInv /\ ArchiveInv
  BY DEF GeneralInv
<1>2. ASSUME NEW e \in Environments, StartBuild(e) PROVE GeneralInv'
  <2>1. TypeOK'
    BY <1>1, <1>2, BuildAssumption DEF StartBuild, TypeOK, Lookups
  <2>2. PlaceInv' /\ CacheInv' /\ ArchiveInv'
    BY <1>1, <1>2 DEF StartBuild, PlaceInv, CacheInv, NoImportCycle, ArchiveInv, ToBeRewritten
  <2> QED
    BY <2>1, <2>2 DEF GeneralInv
<1>3. ASSUME NEW r \in Unit, Link(r) PROVE GeneralInv'
  BY <1>1, <1>3 DEF Link, GeneralInv, TypeOK, PlaceInv, CacheInv, NoImportCycle, ArchiveInv, ArchiveOf
<1>4. CASE EndBuild
  BY <1>1, <1>4 DEF EndBuild, GeneralInv, TypeOK, PlaceInv, CacheInv, NoImportCycle, ArchiveInv, ArchiveOf
<1>5. ASSUME NEW p \in Edited, Edit(p) PROVE GeneralInv'
  BY <1>1, <1>5 DEF Edit, GeneralInv, TypeOK, PlaceInv, CacheInv, NoImportCycle, ArchiveInv, ArchiveOf
<1>6. CASE UNCHANGED vars
  BY <1>1, <1>6 DEF vars, GeneralInv, TypeOK, PlaceInv, CacheInv, NoImportCycle, ArchiveInv, ArchiveOf
<1> QED
  BY <1>2, <1>3, <1>4, <1>5, <1>6, LookUpKeeps, CompileStepKeeps DEF Next, AllBuilt

LEMMA GeneralAlways == Spec => []GeneralInv
  BY GeneralInit, GeneralNext, PTL DEF Spec

-----------------------------------------------------------------------------
(* Type correctness.                                                       *)
THEOREM TypeCorrect == Spec => []TypeOK
<1>1. GeneralInv => TypeOK
  BY DEF GeneralInv
<1> QED
  BY <1>1, GeneralAlways, PTL

(* No archive of a package simd depends on is of rewritten code, however   *)
(* many builds share the cache: "rewriting those would turn into an import *)
(* cycle" (simd.go, skipSet).                                              *)
THEOREM NeverACycle == Spec => []NoImportCycle
<1>1. GeneralInv => NoImportCycle
  BY DEF GeneralInv, CacheInv
<1> QED
  BY <1>1, GeneralAlways, PTL

(* No build takes regrouped float sums from the cache, or compiles them,   *)
(* unless it runs under FP_REASSOC (main.go, printVersion).                *)
THEOREM NeverRegroupsUnasked == Spec => []RegroupsOnRequest
<1>1. GeneralInv => RegroupsOnRequest
  <2> SUFFICES ASSUME GeneralInv, NEW n \in Units, archive[n] # NoArchive, archive[n].code = "regrouped"
               PROVE  env.mode = "reassoc"
    BY DEF RegroupsOnRequest
  <2>1. n \in Unit /\ env # NoBuild
    BY UnitsTyped DEF GeneralInv, TypeOK, Units, NoBuild
  <2>2. ArchiveOf(n)
    BY <2>1 DEF GeneralInv, ArchiveInv
  <2> QED
    BY <2>2 DEF ArchiveOf, GeneralInv, CacheInv
<1> QED
  BY <1>1, GeneralAlways, PTL

-----------------------------------------------------------------------------
(* One build with a cache of its own.  Before it nothing is compiled.      *)
FirstInv == builds = 0 => cache = {} /\ env = NoBuild /\ \A n \in Unit : pc[n] = "wait"

Supported == env.mode # "unsupported"
NotTested == lookup["testtarget"] \in {"no", "error"}
NoVariants(ties) == \A t \in ties : t.pkg \in SkipSet => t.for = NoPackage

(* What a process has been told by the time it gets somewhere, and that    *)
(* the variants it is past noting are noted.                               *)
Told(n) ==
  /\ pc[n] # "wait" => n \in Units
  /\ pc[n] = "cached" => n.for = NoPackage
  /\ pc[n] \in {"record", "consider"} \union ToBeRewritten => Supported
  /\ (pc[n] \in Recorded /\ Supported) => lookup["skip"] # "open"
  /\ pc[n] \in ToBeRewritten => lookup["skip"] = "ok"
  /\ pc[n] \in {"exports", "rewritten"} => NotTested
  /\ pc[n] = "rewritten" => lookup["exports"] = "ok" /\ NoVariants(Direct(n))
ToldInv == lookup["skip"] \in {"open", "ok", "error"} /\ \A n \in Unit : Told(n)
NotedInv ==
  \A n \in Unit :
    (pc[n] \in Recorded /\ Supported /\ lookup["skip"] = "ok" /\ n.pkg \in SkipSet /\ n.for # NoPackage) =>
      n \in variants

(* The archives of what simd depends on are tied to one another's source.  *)
TiedToSources ==
  \A a \in cache :
    (a.for = NoPackage /\ a.pkg \in SkipSet /\ a.mode # "unsupported") =>
      a.ties = {Plain(d) : d \in Imports[a.pkg]}

(* What this build has put into the cache.                                 *)
OwnCacheInv ==
  \A a \in cache :
    /\ a.for # NoPackage => pc[[pkg |-> a.pkg, for |-> a.for]] = "done"
    /\ a.code # "source" => /\ Supported /\ NotTested /\ lookup["exports"] = "ok"
                            /\ NoVariants(a.ties)
    /\ (a.for = NoPackage /\ a.pkg \in SkipSet /\ a.mode # "unsupported") =>
         a.ties = {Plain(d) : d \in Imports[a.pkg]}

VerdictInv ==
  \A r \in env.roots : verdict[r] = "rejected" => env.tests \intersect SkipSet # {} /\ NotTested

BuildInv == ToldInv /\ NotedInv /\ OwnCacheInv /\ VerdictInv
OneBuildInv == FirstInv /\ (env # NoBuild /\ builds = 1 => BuildInv)

-----------------------------------------------------------------------------
(* Once simd's dependencies are known, every variant of one that a unit    *)
(* past its own note was compiled against is noted.                        *)
LEMMA VariantsNoted ==
  ASSUME GeneralInv, env # NoBuild, ToldInv, NotedInv, Supported, lookup["skip"] = "ok",
         NEW n \in Unit, pc[n] # "wait",
         NEW d \in Direct(n), d.pkg \in SkipSet, d.for # NoPackage
  PROVE  d \in variants
<1>1. d \in Unit /\ archive[d] # NoArchive
  BY DirectUnits DEF GeneralInv, PlaceInv
<1>2. pc[d] = "done"
  BY <1>1 DEF GeneralInv, PlaceInv, ToldInv, Told
<1> QED
  BY <1>1, <1>2 DEF NotedInv, Recorded

(* A unit that is to be noted is noted when it is recorded.                *)
LEMMA NotesItself ==
  ASSUME GeneralInv, env # NoBuild, ToldInv, NotedInv, Supported, lookup["skip"] = "ok",
         NEW n \in Unit, pc[n] = "record", n.pkg \in SkipSet, n.for # NoPackage
  PROVE  Notes(n)
<1>1. n \in Units /\ n.for \in Reaches[n.pkg]
  BY UnitsTyped DEF ToldInv, Told, GeneralInv, TypeOK
<1>2. CASE n.for = n.pkg
  BY <1>2 DEF Notes
<1>3. CASE n.for # n.pkg
  <2>1. n.pkg \in Packages /\ Imports[n.pkg] \subseteq Packages
    BY BuildAssumption DEF Unit
  <2>2. PICK p \in Imports[n.pkg] : n.for \in Reaches[p]
    BY <1>1, <1>3, <2>1, ReachesThroughImport
  <2>3. UnitOf(p, n.for) = [pkg |-> p, for |-> n.for] /\ UnitOf(p, n.for) \in Direct(n)
    BY <2>2 DEF UnitOf, Direct
  <2>4. p \in SkipSet
    BY <2>2, SkipSetClosed DEF Closed
  <2>5. UnitOf(p, n.for) \in variants
    BY <2>3, <2>4, VariantsNoted
  <2> QED
    BY <2>3, <2>5 DEF Notes, VariantDependency
<1> QED
  BY <1>2, <1>3

(* What simd depends on is compiled from its source, tied to nothing else. *)
LEMMA SourceTies ==
  ASSUME GeneralInv, env # NoBuild, Supported, NEW p \in SkipSet, NEW n \in Unit,
         n = [pkg |-> p, for |-> NoPackage], archive[n] # NoArchive
  PROVE  Tie(archive[n]) = Plain(p)
<1>1. ArchiveOf(n)
  BY DEF GeneralInv, ArchiveInv
<1>2. archive[n].code = "source"
  BY <1>1 DEF ArchiveOf, GeneralInv, CacheInv, NoImportCycle
<1>3. (archive[n].mode = "unsupported") = FALSE
  BY <1>1 DEF ArchiveOf, Supported
<1> QED
  BY <1>1, <1>2, <1>3 DEF ArchiveOf, Tie, Plain

LEMMA ResultTies ==
  ASSUME GeneralInv, env # NoBuild, NEW n \in Unit, pc[n] # "wait"
  PROVE  /\ NoVariants(Direct(n)) => NoVariants(Result(n).ties)
         /\ (n.for = NoPackage /\ n.pkg \in SkipSet /\ Supported) =>
              Result(n).ties = {Plain(d) : d \in Imports[n.pkg]}
<1>1. Result(n).ties = {Tie(archive[d]) : d \in Direct(n)}
  BY DEF Result
<1>2. \A d \in Direct(n) : d \in Unit /\ archive[d] # NoArchive
  BY DirectUnits DEF GeneralInv, PlaceInv
<1>3. ASSUME NoVariants(Direct(n)) PROVE NoVariants(Result(n).ties)
  <2>1. \A d \in Direct(n) : Tie(archive[d]).pkg = d.pkg /\ Tie(archive[d]).for = d.for
    BY <1>2 DEF GeneralInv, ArchiveInv, ArchiveOf, Tie
  <2> QED
    BY <1>1, <1>3, <2>1 DEF NoVariants
<1>4. ASSUME n.for = NoPackage, n.pkg \in SkipSet, Supported
      PROVE  Result(n).ties = {Plain(d) : d \in Imports[n.pkg]}
  <2>1. ASSUME NEW d \in Imports[n.pkg]
        PROVE  /\ UnitOf(d, n.for) = [pkg |-> d, for |-> NoPackage]
               /\ Tie(archive[UnitOf(d, n.for)]) = Plain(d)
    <3>1. UnitOf(d, n.for) = [pkg |-> d, for |-> NoPackage] /\ UnitOf(d, n.for) \in Direct(n)
      BY <1>4 DEF UnitOf, Direct
    <3>2. d \in SkipSet
      BY <1>4, SkipSetClosed DEF Closed
    <3> QED
      BY <3>1, <3>2, <1>2, <1>4, SourceTies
  <2>2. {Tie(archive[d]) : d \in Direct(n)} = {Tie(archive[UnitOf(d, n.for)]) : d \in Imports[n.pkg]}
    BY DEF Direct
  <2> QED
    BY <1>1, <2>1, <2>2
<1> QED
  BY <1>3, <1>4

-----------------------------------------------------------------------------
LEMMA LookUpKeepsBuild ==
  ASSUME GeneralInv, BuildInv, NEW l \in Lookups, LookUp(l)
  PROVE  BuildInv'
<1>1. /\ lookup[l] = "open" /\ \A k \in Lookups : k # l => lookup'[k] = lookup[k]
      /\ cache' \subseteq cache \union Exports
      /\ UNCHANGED <<env, builds, pc, archive, variants, verdict>>
  BY DEF LookUp, GeneralInv, TypeOK
<1>2. /\ lookup["skip"] # "open" => lookup'["skip"] = lookup["skip"]
      /\ lookup["exports"] # "open" => lookup'["exports"] = lookup["exports"]
      /\ NotTested => NotTested'
  BY <1>1 DEF Lookups, NotTested
<1>3. Units' = Units /\ Supported' = Supported
  BY <1>1 DEF Units, Supported
<1>4. ToldInv'
  <2> SUFFICES ASSUME NEW n \in Unit PROVE Told(n)'
    <3>1. lookup'["skip"] \in {"open", "ok", "error"}
      BY <1>1 DEF LookUp, Outcome, BuildInv, ToldInv, GeneralInv, TypeOK
    <3> QED
      BY <3>1 DEF ToldInv
  <2>1. NoVariants(Direct(n))' <=> NoVariants(Direct(n))
    BY DEF NoVariants, Direct
  <2> QED
    BY <1>1, <1>2, <1>3, <2>1 DEF BuildInv, ToldInv, Told
<1>5. NotedInv'
  BY <1>1, <1>2, <1>3 DEF BuildInv, NotedInv, ToldInv, Told
<1>6. OwnCacheInv'
  <2> SUFFICES ASSUME NEW a \in cache'
               PROVE  /\ a.for # NoPackage => pc'[[pkg |-> a.pkg, for |-> a.for]] = "done"
                      /\ a.code # "source" =>
                           /\ Supported' /\ NotTested' /\ lookup'["exports"] = "ok"
                           /\ NoVariants(a.ties)
                      /\ (a.for = NoPackage /\ a.pkg \in SkipSet /\ a.mode # "unsupported") =>
                           a.ties = {Plain(d) : d \in Imports[a.pkg]}
    BY DEF OwnCacheInv, NoVariants
  <2>1. CASE a \in cache
    BY <2>1, <1>1, <1>2, <1>3 DEF BuildInv, OwnCacheInv
  <2>2. CASE a \notin cache
    BY <2>2, <1>1, ExportsAre DEF GeneralInv
  <2> QED
    BY <2>1, <2>2
<1>7. VerdictInv'
  BY <1>1, <1>2 DEF BuildInv, VerdictInv
<1> QED
  BY <1>4, <1>5, <1>6, <1>7 DEF BuildInv

(* A unit gets its archive, from the cache or from the compiler.           *)
LEMMA ArchiveKeepsBuild ==
  ASSUME GeneralInv, env # NoBuild, BuildInv, NEW n \in Unit, n \in Units,
         pc[n] \notin {"done", "cached"},
         NEW where \in {"done", "cached"}, pc' = [pc EXCEPT ![n] = where],
         where = "cached" => n.for = NoPackage,
         (where = "done" /\ Supported) => pc[n] \in Recorded,
         OwnCacheInv', UNCHANGED <<env, builds, variants, lookup, verdict>>
  PROVE  BuildInv'
<1>1. pc'[n] = where /\ \A m \in Unit : m # n => pc'[m] = pc[m]
  BY DEF GeneralInv, TypeOK
<1>2. Units' = Units /\ Supported' = Supported /\ NotTested' = NotTested
  BY DEF Units, Supported, NotTested
<1>3. ToldInv'
  <2> SUFFICES ASSUME NEW m \in Unit PROVE Told(m)'
    BY DEF BuildInv, ToldInv
  <2>1. CASE m = n
    BY <2>1, <1>1, <1>2 DEF BuildInv, ToldInv, Told, NoVariants, ToBeRewritten, Recorded
  <2>2. CASE m # n
    BY <2>2, <1>1, <1>2 DEF BuildInv, ToldInv, Told, NoVariants
  <2> QED
    BY <2>1, <2>2
<1>4. NotedInv'
  <2> SUFFICES ASSUME NEW m \in Unit, pc'[m] \in Recorded, Supported, lookup["skip"] = "ok",
                      m.pkg \in SkipSet, m.for # NoPackage
               PROVE  m \in variants
    BY <1>2 DEF NotedInv
  <2> QED
    BY <1>1 DEF BuildInv, NotedInv, Recorded
<1>5. VerdictInv'
  BY <1>2 DEF BuildInv, VerdictInv
<1> QED
  BY <1>3, <1>4, <1>5 DEF BuildInv

LEMMA UseCachedKeepsBuild ==
  ASSUME GeneralInv, env # NoBuild, BuildInv, NEW n \in Unit, UseCached(n)
  PROVE  BuildInv'
<1>1. PICK a \in cache : a.pkg = n.pkg /\ a.for = n.for
  BY DEF UseCached, Hits
<1>2. n \in Units /\ pc[n] = "wait" /\ pc' = [pc EXCEPT ![n] = "cached"]
      /\ UNCHANGED <<env, builds, cache, variants, lookup, verdict>>
  BY DEF UseCached, Ready
<1>3. n = [pkg |-> n.pkg, for |-> n.for]
  BY DEF Unit
<1>4. n.for = NoPackage
  <2>1. n.for # NoPackage => pc[[pkg |-> n.pkg, for |-> n.for]] = "done"
    BY <1>1 DEF BuildInv, OwnCacheInv
  <2> QED
    BY <1>2, <1>3, <2>1
<1>5. OwnCacheInv'
  <2> SUFFICES ASSUME NEW b \in cache, b.for # NoPackage
               PROVE  pc'[[pkg |-> b.pkg, for |-> b.for]] = "done"
    BY <1>2 DEF BuildInv, OwnCacheInv, Supported, NotTested, NoVariants
  <2>1. [pkg |-> b.pkg, for |-> b.for] \in Unit
    BY DEF GeneralInv, TypeOK, Archive, Unit
  <2>2. pc[[pkg |-> b.pkg, for |-> b.for]] = "done"
    BY DEF BuildInv, OwnCacheInv
  <2> QED
    BY <1>2, <2>1, <2>2 DEF GeneralInv, TypeOK
<1> QED
  BY <1>2, <1>4, <1>5, ArchiveKeepsBuild

LEMMA CompileKeepsBuild ==
  ASSUME GeneralInv, env # NoBuild, BuildInv, NEW n \in Unit, Compile(n)
  PROVE  BuildInv'
<1>1. /\ pc[n] \in {"source", "rewritten"} /\ pc' = [pc EXCEPT ![n] = "done"]
      /\ UNCHANGED <<env, builds, variants, lookup, verdict>>
  BY DEF Compile
<1>2. cache' = cache \union {Result(n)}
  BY DEF Compile, Result, CompiledCode
<1>3. n \in Units /\ n = [pkg |-> n.pkg, for |-> n.for]
  BY <1>1 DEF BuildInv, ToldInv, Told, Unit
<1>4. pc'[n] = "done" /\ \A m \in Unit : pc[m] = "done" => pc'[m] = "done"
  BY <1>1 DEF GeneralInv, TypeOK
<1>5. OwnCacheInv'
  <2> SUFFICES ASSUME NEW a \in cache'
               PROVE  /\ a.for # NoPackage => pc'[[pkg |-> a.pkg, for |-> a.for]] = "done"
                      /\ a.code # "source" =>
                           /\ Supported /\ NotTested /\ lookup["exports"] = "ok"
                           /\ NoVariants(a.ties)
                      /\ (a.for = NoPackage /\ a.pkg \in SkipSet /\ a.mode # "unsupported") =>
                           a.ties = {Plain(d) : d \in Imports[a.pkg]}
    BY <1>1 DEF OwnCacheInv, NoVariants, Supported, NotTested
  <2>1. CASE a \in cache
    <3>1. a.for # NoPackage => [pkg |-> a.pkg, for |-> a.for] \in Unit
      BY <2>1 DEF GeneralInv, TypeOK, Archive, Unit
    <3> QED
      BY <2>1, <3>1, <1>4 DEF BuildInv, OwnCacheInv
  <2>2. CASE a = Result(n)
    <3>1. /\ a.pkg = n.pkg /\ a.for = n.for /\ a.mode = env.mode
          /\ a.code # "source" => pc[n] = "rewritten"
      BY <2>2, <1>1 DEF Result, CompiledCode
    <3>2. pc[n] = "rewritten" => /\ Supported /\ NotTested /\ lookup["exports"] = "ok"
                                 /\ NoVariants(Direct(n))
      BY DEF BuildInv, ToldInv, Told, ToBeRewritten
    <3>3. /\ NoVariants(Direct(n)) => NoVariants(a.ties)
          /\ (n.for = NoPackage /\ n.pkg \in SkipSet /\ Supported) => a.ties = {Plain(d) : d \in Imports[n.pkg]}
      BY <2>2, <1>1, ResultTies
    <3>4. pc'[[pkg |-> a.pkg, for |-> a.for]] = "done"
      BY <3>1, <1>3, <1>4
    <3>5. a.code # "source" => /\ Supported /\ NotTested /\ lookup["exports"] = "ok"
                               /\ NoVariants(a.ties)
      BY <3>1, <3>2, <3>3
    <3>6. (a.for = NoPackage /\ a.pkg \in SkipSet /\ a.mode # "unsupported") =>
            a.ties = {Plain(d) : d \in Imports[a.pkg]}
      BY <3>1, <3>3 DEF Supported
    <3> QED
      BY <3>4, <3>5, <3>6
  <2> QED
    BY <2>1, <2>2, <1>2
<1> QED
  BY <1>1, <1>3, <1>5, ArchiveKeepsBuild DEF Recorded

(* A process gets one step further without compiling anything.             *)
LEMMA MoveKeepsBuild ==
  ASSUME GeneralInv, env # NoBuild, BuildInv, NEW n \in Unit, n \in Units,
         pc[n] \notin {"done", "cached"},
         NEW where \in Labels \ {"wait", "done", "cached"}, pc' = [pc EXCEPT ![n] = where],
         where \in {"record", "consider"} \union ToBeRewritten => Supported,
         (where \in Recorded /\ Supported) => lookup["skip"] # "open",
         where \in ToBeRewritten => lookup["skip"] = "ok",
         where \in {"exports", "rewritten"} => NotTested,
         where = "rewritten" => lookup["exports"] = "ok" /\ NoVariants(Direct(n)),
         variants \subseteq variants',
         (where \in Recorded /\ Supported /\ lookup["skip"] = "ok" /\ n.pkg \in SkipSet /\ n.for # NoPackage) =>
           n \in variants',
         UNCHANGED <<env, builds, cache, archive, lookup, verdict>>
  PROVE  BuildInv'
<1>1. pc'[n] = where /\ \A m \in Unit : m # n => pc'[m] = pc[m]
  BY DEF GeneralInv, TypeOK
<1>2. Units' = Units /\ Supported' = Supported /\ NotTested' = NotTested
  BY DEF Units, Supported, NotTested
<1>3. ToldInv'
  <2> SUFFICES ASSUME NEW m \in Unit PROVE Told(m)'
    BY DEF BuildInv, ToldInv
  <2>1. CASE m = n
    BY <2>1, <1>1, <1>2 DEF Told, NoVariants
  <2>2. CASE m # n
    BY <2>2, <1>1, <1>2 DEF BuildInv, ToldInv, Told, NoVariants
  <2> QED
    BY <2>1, <2>2
<1>4. NotedInv'
  BY <1>1, <1>2 DEF BuildInv, NotedInv
<1>5. OwnCacheInv'
  <2> SUFFICES ASSUME NEW a \in cache, a.for # NoPackage
               PROVE  pc'[[pkg |-> a.pkg, for |-> a.for]] = "done"
    BY <1>2 DEF BuildInv, OwnCacheInv, NoVariants
  <2>1. [pkg |-> a.pkg, for |-> a.for] \in Unit
    BY DEF GeneralInv, TypeOK, Archive, Unit
  <2>2. pc[[pkg |-> a.pkg, for |-> a.for]] = "done"
    BY DEF BuildInv, OwnCacheInv
  <2> QED
    BY <1>1, <2>1, <2>2
<1>6. VerdictInv'
  BY <1>2 DEF BuildInv, VerdictInv
<1> QED
  BY <1>3, <1>4, <1>5, <1>6 DEF BuildInv

(* Nobody who is past noting a variant was compiled against one.           *)
LEMMA NoVariantDependency ==
  ASSUME GeneralInv, env # NoBuild, BuildInv, NEW n \in Unit, pc[n] = "exports", ~VariantDependency(n)
  PROVE  NoVariants(Direct(n))
<1>1. Supported /\ lookup["skip"] = "ok"
  BY DEF BuildInv, ToldInv, Told, ToBeRewritten
<1>2. \A d \in Direct(n) : (d.pkg \in SkipSet /\ d.for # NoPackage) => d \in variants
  BY <1>1, VariantsNoted DEF BuildInv
<1> QED
  BY <1>2 DEF NoVariants, VariantDependency

LEMMA CompileStepKeepsBuild ==
  ASSUME GeneralInv, env # NoBuild, BuildInv, NEW n \in Unit, CompileStep(n)
  PROVE  BuildInv'
<1> DEFINE same == UNCHANGED <<env, builds, cache, archive, lookup, verdict>>
<1>1. /\ pc[n] # "wait" => n \in Units
      /\ pc[n] \in {"record", "consider"} \union ToBeRewritten => Supported
      /\ (pc[n] \in Recorded /\ Supported) => lookup["skip"] # "open"
      /\ pc[n] \in ToBeRewritten => lookup["skip"] = "ok"
      /\ pc[n] \in {"exports", "rewritten"} => NotTested
      /\ (pc[n] \in Recorded /\ Supported /\ lookup["skip"] = "ok" /\ n.pkg \in SkipSet /\ n.for # NoPackage) =>
           n \in variants
  BY DEF BuildInv, ToldInv, Told, NotedInv
<1>2. CASE UseCached(n) \/ Compile(n)
  BY <1>2, UseCachedKeepsBuild, CompileKeepsBuild
<1>3. CASE StartCompile(n)
  <2>1. n \in Units /\ pc[n] = "wait" /\ variants' = variants /\ same
    BY <1>3 DEF StartCompile, Ready
  <2>2. CASE Supported
    <3>1. pc' = [pc EXCEPT ![n] = "record"]
      BY <1>3, <2>2 DEF StartCompile, Supported
    <3> QED
      BY <2>1, <2>2, <3>1, MoveKeepsBuild DEF Labels, Recorded, ToBeRewritten
  <2>3. CASE ~Supported
    <3>1. pc' = [pc EXCEPT ![n] = "source"]
      BY <1>3, <2>3 DEF StartCompile, Supported
    <3> QED
      BY <2>1, <2>3, <3>1, MoveKeepsBuild DEF Labels, Recorded, ToBeRewritten
  <2> QED
    BY <2>2, <2>3
<1>4. CASE RecordVariant(n)
  <2>1. pc[n] = "record" /\ lookup["skip"] # "open" /\ pc' = [pc EXCEPT ![n] = "consider"] /\ same
    BY <1>4 DEF RecordVariant
  <2>2. /\ variants \subseteq variants'
        /\ (lookup["skip"] = "ok" /\ Notes(n)) => n \in variants'
    BY <1>4 DEF RecordVariant
  <2>3. (lookup["skip"] = "ok" /\ n.pkg \in SkipSet /\ n.for # NoPackage) => Notes(n)
    BY <1>1, <2>1, NotesItself DEF BuildInv
  <2> QED
    BY <1>1, <2>1, <2>2, <2>3, MoveKeepsBuild DEF Labels, Recorded, ToBeRewritten
<1>5. CASE Consider(n)
  <2>1. pc[n] = "consider" /\ lookup["skip"] # "open" /\ variants' = variants /\ same
    BY <1>5 DEF Consider
  <2>2. CASE LeftAlone(n)
    <3>1. pc' = [pc EXCEPT ![n] = "source"]
      BY <1>5, <2>2 DEF Consider
    <3> QED
      BY <1>1, <2>1, <3>1, MoveKeepsBuild DEF Labels, Recorded, ToBeRewritten
  <2>3. CASE ~LeftAlone(n)
    <3>1. pc' = [pc EXCEPT ![n] = "target"]
      BY <1>5, <2>3 DEF Consider
    <3>2. lookup["skip"] = "ok" /\ n.pkg \notin SkipSet
      BY <2>1, <2>3 DEF LeftAlone, BuildInv, ToldInv
    <3> QED
      BY <1>1, <2>1, <3>1, <3>2, MoveKeepsBuild DEF Labels, Recorded, ToBeRewritten
  <2> QED
    BY <2>2, <2>3
<1>6. CASE CheckTarget(n)
  <2>1. pc[n] = "target" /\ variants' = variants /\ same
    BY <1>6 DEF CheckTarget
  <2>2. n.pkg \notin SkipSet
    BY <2>1 DEF GeneralInv, PlaceInv, ToBeRewritten
  <2>3. CASE pc' = [pc EXCEPT ![n] = "source"]
    BY <1>1, <2>1, <2>3, MoveKeepsBuild DEF Labels, Recorded, ToBeRewritten
  <2>4. CASE pc' = [pc EXCEPT ![n] = "exports"] /\ TestsNoSimdDependency(n)
    <3>1. NotTested
      BY <2>4 DEF TestsNoSimdDependency, NotTested
    <3> QED
      BY <1>1, <2>1, <2>2, <2>4, <3>1, MoveKeepsBuild DEF Labels, Recorded, ToBeRewritten
  <2> QED
    BY <1>6, <2>3, <2>4 DEF CheckTarget
<1>7. CASE Rewrite(n)
  <2>1. pc[n] = "exports" /\ variants' = variants /\ same
    BY <1>7 DEF Rewrite
  <2>2. n.pkg \notin SkipSet
    BY <2>1 DEF GeneralInv, PlaceInv, ToBeRewritten
  <2>3. CASE pc' = [pc EXCEPT ![n] = "source"]
    BY <1>1, <2>1, <2>3, MoveKeepsBuild DEF Labels, Recorded, ToBeRewritten
  <2>4. CASE pc' = [pc EXCEPT ![n] = "rewritten"] /\ lookup["exports"] = "ok" /\ ~VariantDependency(n)
    <3>1. NoVariants(Direct(n))
      BY <2>1, <2>4, NoVariantDependency
    <3> QED
      BY <1>1, <2>1, <2>2, <2>4, <3>1, MoveKeepsBuild DEF Labels, Recorded, ToBeRewritten
  <2> QED
    BY <1>7, <2>3, <2>4 DEF Rewrite
<1> QED
  BY <1>2, <1>3, <1>4, <1>5, <1>6, <1>7 DEF CompileStep

-----------------------------------------------------------------------------
(* A program without rewritten code has all its archives are tied to.      *)
LEMMA GivenTies ==
  ASSUME GeneralInv, NEW r \in env.roots, Compiled(r), NEW a \in Given(r), NEW t \in a.ties
  PROVE  \E b \in Given(r) : Tie(b) = t
<1>1. PICK n \in Program(r) : a = archive[n]
  BY DEF Given
<1>2. env # NoBuild /\ r \in Unit /\ n \in Unit /\ Direct(n) \subseteq Program(r)
  BY UnitsTyped, UnitsOfProgram DEF GeneralInv, TypeOK, NoBuild
<1>3. a.ties = {Tie(archive[d]) : d \in Direct(n)}
  BY <1>1, <1>2 DEF Compiled, GeneralInv, ArchiveInv, ArchiveOf
<1>4. PICK d \in Direct(n) : t = Tie(archive[d])
  BY <1>3
<1> QED
  BY <1>2, <1>4 DEF Given

(* Where no package simd depends on is tested, the program and what is     *)
(* added to it have each of them as compiled from its source.              *)
LEMMA ExtendedHasSources ==
  ASSUME GeneralInv, NEW r \in env.roots, Compiled(r), Supported,
         lookup["exports"] = "ok", env.tests \intersect SkipSet = {}, NEW p \in SkipSet
  PROVE  \E b \in Extended(r) : Tie(b) = Plain(p)
<1>1. env # NoBuild /\ r \in Unit /\ r.for \in env.tests \union {NoPackage}
  BY UnitsTyped DEF GeneralInv, TypeOK, NoBuild
<1>2. Extended(r) = Given(r) \union Added(r)
  BY DEF Extended
<1>3. CASE \E b \in Given(r) : p = b.pkg
  <2>1. PICK n \in Program(r) : archive[n].pkg = p
    BY <1>3 DEF Given
  <2>2. n \in Unit /\ archive[n] # NoArchive /\ archive[n] \in Given(r)
    BY <1>1, <2>1, UnitsOfProgram DEF Compiled, Given
  <2>3. n.pkg = p
    BY <1>1, <2>1, <2>2 DEF GeneralInv, ArchiveInv, ArchiveOf
  <2>4. n.for = NoPackage
    <3>1. n.for \in {r.for, NoPackage} /\ (n.for # NoPackage => n.for \in Reaches[p])
      BY <1>1, <2>3, UnitsOfProgram
    <3>2. Reaches[p] \subseteq SkipSet
      BY SkipSetClosed
    <3> QED
      BY <1>1, <3>1, <3>2
  <2>5. n = [pkg |-> p, for |-> NoPackage]
    BY <2>2, <2>3, <2>4 DEF Unit
  <2>6. Tie(archive[n]) = Plain(p)
    BY <1>1, <2>2, <2>5, SourceTies
  <2> QED
    BY <1>2, <2>2, <2>6
<1>4. CASE \A b \in Given(r) : p # b.pkg
  <2>1. Nested(p) \in Exports
    BY DEF Exports
  <2>2. Nested(p).pkg = p
    <3>1. NestedHits(p) # {} => Nested(p) \in NestedHits(p)
      BY DEF Nested
    <3> QED
      BY <3>1 DEF Nested, NestedHits
  <2>3. Nested(p) \in Added(r)
    BY <1>4, <2>1, <2>2 DEF Added
  <2>4. Nested(p).for = NoPackage /\ Nested(p).mode = NestedMode
        /\ (Nested(p) \notin cache => Nested(p).code = "source")
    BY <2>1, ExportsAre DEF GeneralInv
  <2>5. Nested(p).code = "source"
    BY <2>2, <2>4 DEF GeneralInv, CacheInv, NoImportCycle
  <2>6. (Nested(p).mode = "unsupported") = FALSE
    BY <2>4 DEF NestedMode, Supported
  <2>7. Tie(Nested(p)) = Plain(p)
    BY <2>2, <2>4, <2>5, <2>6 DEF Tie, Plain
  <2> QED
    BY <1>2, <2>3, <2>7
<1> QED
  BY <1>3, <1>4

(* The linker takes a program whose rewritten code finds simd as it is     *)
(* compiled from its source.                                               *)
LEMMA AcceptsWithSources ==
  ASSUME GeneralInv, TiedToSources, NEW r \in env.roots, Compiled(r),
         (\E b \in Given(r) : b.code # "source") =>
           Supported /\ lookup["exports"] = "ok" /\ env.tests \intersect SkipSet = {}
  PROVE  Accepts(r)
<1>1. CASE \A b \in Given(r) : b.code = "source"
  <2>1. Loaded(r) \subseteq Given(r) /\ Given(r) \subseteq Extended(r)
    BY <1>1 DEF Loaded, Extended
  <2>2. \A a \in Given(r) : TiesOf(a) = a.ties
    BY <1>1 DEF TiesOf
  <2>3. ASSUME NEW a \in Given(r), NEW t \in a.ties PROVE \E b \in Extended(r) : Tie(b) = t
    BY <2>1, <2>3, GivenTies
  <2> QED
    BY <2>1, <2>2, <2>3 DEF Accepts
<1>2. CASE \E b \in Given(r) : b.code # "source"
  <2>1. env # NoBuild /\ r \in Unit
    BY UnitsTyped DEF GeneralInv, TypeOK, NoBuild
  <2>3. Supported /\ lookup["exports"] = "ok"
    BY <1>2
  <2>4. env.tests \intersect SkipSet = {}
    BY <1>2
  <2>5. \A p \in SkipSet : \E b \in Extended(r) : Tie(b) = Plain(p)
    BY <2>3, <2>4, ExtendedHasSources
  <2>6. Extended(r) = Given(r) \union Added(r)
    BY <2>3 DEF Extended
  <2>7. ASSUME NEW a \in Given(r), NEW t \in TiesOf(a) PROVE \E b \in Extended(r) : Tie(b) = t
    <3>1. CASE t \in a.ties
      BY <3>1, <2>6, GivenTies
    <3>2. CASE t = Plain(Simd)
      BY <3>2, <2>5, SkipSetClosed
    <3> QED
      BY <2>7, <3>1, <3>2 DEF TiesOf
  <2>8. ASSUME NEW a \in Added(r), NEW t \in TiesOf(a) PROVE \E b \in Extended(r) : Tie(b) = t
    <3>1. /\ a.pkg \in SkipSet /\ a.for = NoPackage /\ a.mode = NestedMode
          /\ a \notin cache => a.code = "source" /\ a.ties = {Plain(d) : d \in Imports[a.pkg]}
      BY ExportsAre DEF Added, GeneralInv
    <3>2. a.code = "source"
      BY <3>1 DEF GeneralInv, CacheInv, NoImportCycle
    <3>3. a.mode # "unsupported"
      BY <3>1, <2>3 DEF NestedMode, Supported
    <3>4. a.ties = {Plain(d) : d \in Imports[a.pkg]}
      BY <3>1, <3>3 DEF TiedToSources
    <3>5. PICK d \in Imports[a.pkg] : t = Plain(d)
      BY <2>8, <3>2, <3>4 DEF TiesOf
    <3>6. d \in SkipSet
      BY <3>1, <3>5, SkipSetClosed DEF Closed
    <3> QED
      BY <3>5, <3>6, <2>5
  <2> QED
    BY <2>6, <2>7, <2>8 DEF Accepts, Loaded
<1> QED
  BY <1>1, <1>2

LEMMA GivenFromCache ==
  ASSUME GeneralInv, NEW r \in env.roots, Compiled(r), NEW a \in Given(r)
  PROVE  a \in cache /\ a.mode = env.mode
<1>1. env # NoBuild /\ r \in Unit
  BY UnitsTyped DEF GeneralInv, TypeOK, NoBuild
<1>2. PICK n \in Program(r) : a = archive[n]
  BY DEF Given
<1> QED
  BY <1>1, <1>2, UnitsOfProgram DEF Compiled, GeneralInv, ArchiveInv, ArchiveOf

(* The linker takes a program unless a package simd depends on is tested   *)
(* and the wrapper did not find out.                                       *)
LEMMA AcceptsUnlessUntold ==
  ASSUME GeneralInv, BuildInv, NEW r \in env.roots, Compiled(r),
         env.tests \intersect SkipSet = {} \/ ~NotTested
  PROVE  Accepts(r)
<1>1. (\E b \in Given(r) : b.code # "source") => Supported /\ NotTested /\ lookup["exports"] = "ok"
  BY GivenFromCache DEF BuildInv, OwnCacheInv
<1>2. TiedToSources
  BY DEF BuildInv, OwnCacheInv, TiedToSources
<1> QED
  BY <1>1, <1>2, AcceptsWithSources

LEMMA LinkKeepsBuild ==
  ASSUME GeneralInv, BuildInv, NEW r \in Unit, Link(r)
  PROVE  BuildInv'
<1>1. r \in env.roots /\ Compiled(r) /\ UNCHANGED <<env, builds, cache, pc, archive, variants, lookup>>
      /\ verdict' = [verdict EXCEPT ![r] = IF Accepts(r) THEN "linked" ELSE "rejected"]
  BY DEF Link
<1>2. Units' = Units /\ Supported' = Supported /\ NotTested' = NotTested
  BY <1>1 DEF Units, Supported, NotTested
<1>3. VerdictInv'
  <2> SUFFICES ASSUME NEW q \in env.roots, verdict'[q] = "rejected"
               PROVE  env.tests \intersect SkipSet # {} /\ NotTested
    BY <1>1, <1>2 DEF VerdictInv
  <2>1. q \in Unit
    BY UnitsTyped DEF GeneralInv, TypeOK
  <2>2. CASE q = r
    <3>1. ~Accepts(r)
      BY <1>1, <2>1, <2>2 DEF GeneralInv, TypeOK
    <3> QED
      BY <1>1, <3>1, AcceptsUnlessUntold
  <2>3. CASE q # r
    BY <1>1, <2>1, <2>3 DEF GeneralInv, TypeOK, BuildInv, VerdictInv
  <2> QED
    BY <2>2, <2>3
<1>4. ToldInv' /\ NotedInv' /\ OwnCacheInv'
  BY <1>1, <1>2 DEF BuildInv, ToldInv, Told, NotedInv, OwnCacheInv, NoVariants
<1> QED
  BY <1>3, <1>4 DEF BuildInv

LEMMA OneBuildNext == GeneralInv /\ OneBuildInv /\ [Next]_vars => OneBuildInv'
<1> SUFFICES ASSUME GeneralInv, OneBuildInv, [Next]_vars PROVE OneBuildInv'
  OBVIOUS
<1>1. builds \in Nat /\ FirstInv /\ (env # NoBuild /\ builds = 1 => BuildInv)
  BY BuildAssumption DEF OneBuildInv, GeneralInv, TypeOK
<1>2. ASSUME NEW e \in Environments, StartBuild(e) PROVE OneBuildInv'
  <2>1. builds' = builds + 1
    BY <1>2 DEF StartBuild
  <2>2. CASE builds = 0
    <3>1. builds' = 1 /\ cache' = {}
      BY <1>1, <1>2, <2>2 DEF StartBuild, FirstInv
    <3>2. ToldInv' /\ NotedInv' /\ OwnCacheInv' /\ VerdictInv'
      <4>1. /\ \A n \in Unit : pc'[n] = "wait" /\ verdict'[n] = "none"
            /\ lookup'["skip"] = "open"
        BY <1>2 DEF StartBuild, Lookups
      <4>2. env'.roots \subseteq Unit
        BY <1>2, BuildAssumption DEF StartBuild, Environment
      <4> QED
        BY <3>1, <4>1, <4>2 DEF ToldInv, Told, NotedInv, OwnCacheInv, VerdictInv, Recorded, ToBeRewritten
    <3> QED
      BY <3>1, <3>2 DEF OneBuildInv, FirstInv, BuildInv
  <2>3. CASE builds # 0
    <3>1. builds' # 0 /\ builds' # 1
      BY <1>1, <2>1, <2>3
    <3> QED
      BY <3>1 DEF OneBuildInv, FirstInv
  <2> QED
    BY <2>2, <2>3
<1>3. ASSUME NEW l \in Lookups, LookUp(l) PROVE OneBuildInv'
  <2>1. /\ lookup[l] = "open" /\ Needs(l) /\ l \in Lookups
        /\ env' = env /\ builds' = builds
    BY <1>3 DEF LookUp
  <2>2. builds # 0
    BY <1>1, <2>1 DEF FirstInv, NoBuild, Needs
  <2> QED
    BY <1>1, <1>3, <2>1, <2>2, LookUpKeepsBuild DEF OneBuildInv, FirstInv
<1>4. ASSUME NEW n \in Unit, CompileStep(n) PROVE OneBuildInv'
  <2>1. env' = env /\ builds' = builds
    BY <1>4 DEF CompileStep, UseCached, StartCompile, RecordVariant, Consider, CheckTarget, Rewrite, Compile
  <2>2. builds # 0
    <3>1. CASE pc[n] = "wait"
      <4>1. n \in Units
        BY <1>4, <3>1 DEF CompileStep, UseCached, StartCompile, RecordVariant, Consider, CheckTarget,
                          Rewrite, Compile, Ready
      <4> QED
        BY <1>1, <4>1 DEF FirstInv, NoBuild, Units
    <3>2. CASE pc[n] # "wait"
      BY <1>1, <3>2 DEF FirstInv
    <3> QED
      BY <3>1, <3>2
  <2> QED
    BY <1>1, <1>4, <2>1, <2>2, CompileStepKeepsBuild DEF OneBuildInv, FirstInv
<1>5. ASSUME NEW r \in Unit, Link(r) PROVE OneBuildInv'
  <2>1. env' = env /\ builds' = builds /\ env # NoBuild
    BY <1>5 DEF Link, NoBuild
  <2> QED
    BY <1>1, <1>5, <2>1, LinkKeepsBuild DEF OneBuildInv, FirstInv
<1>6. CASE EndBuild
  BY <1>1, <1>6 DEF EndBuild, OneBuildInv, FirstInv
<1>7. ASSUME NEW p \in Edited, Edit(p) PROVE OneBuildInv'
  BY <1>1, <1>7 DEF Edit, OneBuildInv, FirstInv
<1>8. CASE UNCHANGED vars
  <2>1. /\ UNCHANGED <<env, builds, cache, pc, archive, variants, lookup, verdict>>
        /\ Units' = Units /\ Supported' = Supported /\ NotTested' = NotTested
    BY <1>8 DEF vars, Units, Supported, NotTested
  <2> QED
    BY <1>1, <2>1 DEF OneBuildInv, FirstInv, BuildInv, ToldInv, Told, NotedInv, OwnCacheInv, VerdictInv, NoVariants
<1> QED
  BY <1>2, <1>3, <1>4, <1>5, <1>6, <1>7, <1>8 DEF Next, AllBuilt

LEMMA OneBuildInit == Init => OneBuildInv
  BY DEF Init, OneBuildInv, FirstInv

LEMMA OneBuildAlways == Spec => [](GeneralInv /\ OneBuildInv)
<1>1. Init => GeneralInv /\ OneBuildInv
  BY GeneralInit, OneBuildInit
<1>2. GeneralInv /\ OneBuildInv /\ [Next]_vars => (GeneralInv /\ OneBuildInv)'
  BY GeneralNext, OneBuildNext
<1> QED
  BY <1>1, <1>2, PTL DEF Spec

(* The archives of a build are what is in the cache.                       *)
LEMMA BuiltFromCache ==
  ASSUME GeneralInv, OneBuildInv, builds = 1, NEW n \in Units, archive[n] # NoArchive
  PROVE  BuildInv /\ archive[n] \in cache /\ archive[n].pkg = n.pkg
<1>1. n \in Unit /\ env # NoBuild
  BY UnitsTyped DEF GeneralInv, TypeOK, Units, NoBuild
<1> QED
  BY <1>1 DEF OneBuildInv, GeneralInv, ArchiveInv, ArchiveOf

-----------------------------------------------------------------------------
(* In a build with a cache of its own the linker rejects a program only    *)
(* where it tests something simd depends on and the wrapper did not find   *)
(* out: "the wrapper can only change what gets compiled, never make a      *)
(* working build fail" (compile.go), but for toolexec.md's exception.      *)
THEOREM WorkingBuildsLink == Spec => []LinksUnlessUntold
<1>1. GeneralInv /\ OneBuildInv => LinksUnlessUntold
  <2> SUFFICES ASSUME GeneralInv, OneBuildInv, builds = 1, NEW r \in env.roots, verdict[r] = "rejected"
               PROVE  Untold
    BY DEF LinksUnlessUntold
  <2>1. BuildInv
    BY DEF OneBuildInv, NoBuild
  <2> QED
    BY <2>1 DEF BuildInv, VerdictInv, Untold, NotTested
<1> QED
  BY <1>1, OneBuildAlways, PTL

(* recordVariant protects every package that is rewritten from the test    *)
(* variants of what simd depends on (testtarget.go), whatever the imports. *)
THEOREM VariantsProtected == Spec => []ProtectsVariants
<1>1. GeneralInv /\ OneBuildInv => ProtectsVariants
  BY BuiltFromCache DEF ProtectsVariants, BuildInv, OwnCacheInv, NoVariants
<1> QED
  BY <1>1, OneBuildAlways, PTL

-----------------------------------------------------------------------------
(* Builds that share the cache.  Between builds no process is at work, and *)
(* a linked program is compiled.                                           *)
Working == {"record", "consider", "target", "exports", "source", "rewritten"}
RestInv ==
  /\ \A n \in Unit : pc[n] \in Working => env # NoBuild
  /\ env # NoBuild => \A n \in Unit : pc[n] # "wait" => n \in Units
  /\ \A r \in env.roots : verdict[r] # "none" => Compiled(r) /\ lookup["exports"] # "open"

(* No build under a mode the wrapper does not support rewrites anything.   *)
SourceInv ==
  /\ \A n \in Unit : pc[n] \in {"record", "consider"} \union ToBeRewritten => Supported
  /\ \A a \in cache : a.code # "source" => a.mode # "unsupported"
  /\ TiedToSources

SharedInv == RestInv /\ SourceInv /\ LinksFromCache

LEMMA LookUpKeepsShared ==
  ASSUME GeneralInv, SharedInv, NEW l \in Lookups, LookUp(l)
  PROVE  SharedInv'
<1>1. /\ lookup[l] = "open" /\ \A k \in Lookups : k # l => lookup'[k] = lookup[k]
      /\ lookup'[l] # "open"
      /\ cache' \subseteq cache \union Exports
      /\ UNCHANGED <<env, builds, pc, archive, variants, verdict>>
  BY DEF LookUp, GeneralInv, TypeOK, Outcome
<1>2. Units' = Units /\ Supported' = Supported
  BY <1>1 DEF Units, Supported
<1>3. RestInv'
  BY <1>1, <1>2 DEF SharedInv, RestInv, Compiled, Lookups
<1>4. SourceInv'
  <2>1. \A a \in cache' : a \notin cache => a.code = "source" /\ a.ties = {Plain(d) : d \in Imports[a.pkg]}
    BY <1>1, ExportsAre DEF GeneralInv
  <2> QED
    BY <1>1, <1>2, <2>1 DEF SharedInv, SourceInv, TiedToSources
<1>5. LinksFromCache'
  BY <1>1 DEF SharedInv, RestInv, LinksFromCache, Lookups
<1> QED
  BY <1>3, <1>4, <1>5 DEF SharedInv

(* A process works only while its build runs.                              *)
LEMMA BuildRuns ==
  ASSUME GeneralInv, SharedInv, NEW n \in Unit, CompileStep(n)
  PROVE  env # NoBuild /\ n \in Units
<1>1. CASE UseCached(n) \/ StartCompile(n)
  BY <1>1 DEF UseCached, StartCompile, Ready, Units, NoBuild
<1>2. CASE RecordVariant(n) \/ Consider(n) \/ CheckTarget(n) \/ Rewrite(n) \/ Compile(n)
  <2>1. pc[n] \in Working
    BY <1>2 DEF RecordVariant, Consider, CheckTarget, Rewrite, Compile, Working
  <2> QED
    BY <2>1 DEF SharedInv, RestInv, Working
<1> QED
  BY <1>1, <1>2 DEF CompileStep

LEMMA CompileStepKeepsShared ==
  ASSUME GeneralInv, SharedInv, NEW n \in Unit, CompileStep(n)
  PROVE  SharedInv'
<1>1. env # NoBuild /\ n \in Units
  BY BuildRuns
<1>2. UNCHANGED <<env, builds, lookup, verdict>> /\ \A m \in Unit : m # n => pc'[m] = pc[m]
  BY DEF CompileStep, UseCached, StartCompile, RecordVariant, Consider, CheckTarget, Rewrite, Compile,
         GeneralInv, TypeOK
<1>3. Units' = Units /\ Supported' = Supported
  BY <1>2 DEF Units, Supported
<1>4. \A m \in Unit : archive[m] # NoArchive => archive'[m] # NoArchive
  <2>1. CASE UseCached(n) \/ Compile(n)
    <3>1. archive[n] = NoArchive
      BY <2>1 DEF UseCached, Ready, Compile, GeneralInv, PlaceInv
    <3>2. \A m \in Unit : m # n => archive'[m] = archive[m]
      BY <2>1 DEF UseCached, Compile, GeneralInv, TypeOK
    <3> QED
      BY <3>1, <3>2
  <2>2. CASE StartCompile(n) \/ RecordVariant(n) \/ Consider(n) \/ CheckTarget(n) \/ Rewrite(n)
    BY <2>2 DEF StartCompile, RecordVariant, Consider, CheckTarget, Rewrite
  <2> QED
    BY <2>1, <2>2 DEF CompileStep
<1>5. RestInv'
  <2>1. ASSUME NEW r \in env.roots, Compiled(r) PROVE Compiled(r)'
    BY <1>1, <1>4, <2>1, UnitsTyped, UnitsOfProgram DEF Compiled, GeneralInv, TypeOK
  <2> QED
    BY <1>1, <1>2, <1>3, <2>1 DEF SharedInv, RestInv
<1>6. \A m \in Unit : pc'[m] \in {"record", "consider"} \union ToBeRewritten => Supported'
  <2>1. pc'[n] \in {"record", "consider"} \union ToBeRewritten => Supported
    BY DEF CompileStep, UseCached, StartCompile, RecordVariant, Consider, CheckTarget, Rewrite, Compile,
           GeneralInv, TypeOK, ToBeRewritten, Supported, SharedInv, SourceInv
  <2> QED
    BY <1>2, <1>3, <2>1 DEF SharedInv, SourceInv
<1>7. \A a \in cache' : /\ a.code # "source" => a.mode # "unsupported"
                        /\ (a.for = NoPackage /\ a.pkg \in SkipSet /\ a.mode # "unsupported") =>
                             a.ties = {Plain(d) : d \in Imports[a.pkg]}
  <2>1. CASE Compile(n)
    <3>1. cache' = cache \union {Result(n)} /\ pc[n] \in {"source", "rewritten"}
      BY <2>1 DEF Compile, Result, CompiledCode
    <3>2. /\ Result(n).pkg = n.pkg /\ Result(n).for = n.for /\ Result(n).mode = env.mode
          /\ Result(n).code # "source" => pc[n] = "rewritten"
      BY <3>1 DEF Result, CompiledCode
    <3>3. pc[n] = "rewritten" => Supported
      BY DEF SharedInv, SourceInv, ToBeRewritten
    <3>4. (n.for = NoPackage /\ n.pkg \in SkipSet /\ Supported) =>
            Result(n).ties = {Plain(d) : d \in Imports[n.pkg]}
      BY <1>1, <3>1, ResultTies
    <3> QED
      BY <3>1, <3>2, <3>3, <3>4 DEF SharedInv, SourceInv, TiedToSources, Supported
  <2>2. CASE ~Compile(n)
    <3>1. cache' = cache
      BY <2>2 DEF CompileStep, UseCached, StartCompile, RecordVariant, Consider, CheckTarget, Rewrite
    <3> QED
      BY <3>1 DEF SharedInv, SourceInv, TiedToSources
  <2> QED
    BY <2>1, <2>2
<1>8. LinksFromCache'
  BY <1>2 DEF SharedInv, LinksFromCache
<1> QED
  BY <1>5, <1>6, <1>7, <1>8 DEF SharedInv, SourceInv, TiedToSources

LEMMA LinkKeepsShared ==
  ASSUME GeneralInv, SharedInv, NEW r \in Unit, Link(r)
  PROVE  SharedInv'
<1>1. /\ r \in env.roots /\ Compiled(r) /\ lookup["exports"] # "open"
      /\ UNCHANGED <<env, builds, cache, pc, archive, variants, lookup>>
      /\ verdict' = [verdict EXCEPT ![r] = IF Accepts(r) THEN "linked" ELSE "rejected"]
  BY DEF Link
<1>2. Units' = Units /\ Supported' = Supported
  BY <1>1 DEF Units, Supported
<1>3. \A q \in env.roots : q \in Unit /\ (q # r => verdict'[q] = verdict[q])
  BY <1>1, UnitsTyped DEF GeneralInv, TypeOK
<1>4. RestInv' /\ SourceInv'
  BY <1>1, <1>2, <1>3 DEF SharedInv, RestInv, SourceInv, TiedToSources, Compiled
<1>5. LinksFromCache'
  <2> SUFFICES ASSUME env.tests \intersect SkipSet = {}, lookup["exports"] = "ok", NEW q \in env.roots
               PROVE  verdict'[q] # "rejected"
    BY <1>1 DEF LinksFromCache
  <2>1. CASE q # r
    BY <2>1, <1>3 DEF SharedInv, LinksFromCache
  <2>2. CASE q = r
    <3>1. (\E b \in Given(r) : b.code # "source") => Supported
      BY <1>1, GivenFromCache DEF SharedInv, SourceInv, Supported
    <3>2. Accepts(r)
      BY <1>1, <3>1, AcceptsWithSources DEF SharedInv, SourceInv
    <3> QED
      BY <1>1, <2>2, <3>2 DEF GeneralInv, TypeOK
  <2> QED
    BY <2>1, <2>2
<1> QED
  BY <1>4, <1>5 DEF SharedInv

LEMMA SharedNext == GeneralInv /\ SharedInv /\ [Next]_vars => SharedInv'
<1> SUFFICES ASSUME GeneralInv, SharedInv, [Next]_vars PROVE SharedInv'
  OBVIOUS
<1>1. ASSUME NEW e \in Environments, StartBuild(e) PROVE SharedInv'
  <2>1. /\ \A n \in Unit : pc'[n] = "wait" /\ verdict'[n] = "none"
        /\ cache' = cache /\ env'.roots \subseteq Unit
    BY <1>1, BuildAssumption DEF StartBuild, Environment
  <2> QED
    BY <2>1 DEF SharedInv, RestInv, SourceInv, TiedToSources, LinksFromCache, Working, ToBeRewritten
<1>2. CASE EndBuild
  <2>1. /\ env # NoBuild /\ env' = NoBuild /\ \A r \in env.roots : verdict[r] # "none"
        /\ UNCHANGED <<builds, cache, pc, archive, variants, lookup, verdict>>
    BY <1>2 DEF EndBuild
  <2>2. Supported' /\ env'.roots = {}
    BY <2>1 DEF Supported, NoBuild
  <2>3. ASSUME NEW n \in Unit, pc[n] # "wait" PROVE pc[n] \notin Working
    <3>1. PICK r \in env.roots : n \in Program(r)
      BY <2>1, <2>3 DEF SharedInv, RestInv, Units
    <3>2. archive[n] # NoArchive
      BY <2>1, <3>1 DEF SharedInv, RestInv, Compiled
    <3> QED
      BY <3>2 DEF GeneralInv, PlaceInv, Working
  <2>4. RestInv'
    BY <2>1, <2>2, <2>3 DEF RestInv, Working
  <2> QED
    BY <2>1, <2>2, <2>4 DEF SharedInv, SourceInv, TiedToSources, LinksFromCache
<1>3. ASSUME NEW p \in Edited, Edit(p) PROVE SharedInv'
  <2>1. cache' \subseteq cache /\ UNCHANGED <<env, builds, pc, archive, variants, lookup, verdict>>
    BY <1>3 DEF Edit
  <2>2. Units' = Units /\ Supported' = Supported
    BY <2>1 DEF Units, Supported
  <2> QED
    BY <2>1, <2>2 DEF SharedInv, RestInv, SourceInv, TiedToSources, LinksFromCache, Compiled
<1>4. CASE UNCHANGED vars
  <2>1. UNCHANGED <<env, builds, cache, pc, archive, variants, lookup, verdict>>
        /\ Units' = Units /\ Supported' = Supported
    BY <1>4 DEF vars, Units, Supported
  <2> QED
    BY <2>1 DEF SharedInv, RestInv, SourceInv, TiedToSources, LinksFromCache, Compiled
<1> QED
  BY <1>1, <1>2, <1>3, <1>4, LookUpKeepsShared, CompileStepKeepsShared, LinkKeepsShared DEF Next, AllBuilt

(* However many builds share the cache, and whatever their settings and    *)
(* what was edited between them, the linker takes every program of a build *)
(* that tests nothing simd depends on and that found simd's archives       *)
(* (link.go): no archive is taken with another than it was compiled with.  *)
THEOREM CachedBuildsLink == Spec => []LinksFromCache
<1>1. Init => SharedInv
  BY DEF Init, SharedInv, RestInv, SourceInv, TiedToSources, LinksFromCache, NoBuild, Working, ToBeRewritten
<1>2. SharedInv => LinksFromCache
  BY DEF SharedInv
<1> QED
  BY <1>1, <1>2, GeneralInit, GeneralNext, SharedNext, PTL DEF Spec
=============================================================================
