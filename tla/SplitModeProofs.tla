-------------------------- MODULE SplitModeProofs --------------------------
(***************************************************************************)
(* Theorems about SplitMode for every package, on any systems and for any  *)
(* number of runs, wherever they are stopped: only a file that is cut short*)
(* breaks the scalar build, the source is not lost, and a run that ends    *)
(* well leaves a simd build.                                               *)
(***************************************************************************)
EXTENDS SplitMode, TLAPS

Go(f) == disk[<<f, "go">>]
Simd(f) == disk[<<f, "_simd.go">>]

(* What a file may be: as it was or guarded, or rewritten, or what a write *)
(* of a rewritten one that was stopped has left.                           *)
ScalarFile ==
  [tag : {"none", "nosimd"}, code : {"scalar"}, helper : {FALSE}, parses : BOOLEAN, whole : BOOLEAN]
LanesFile == [tag : {"simd"}, code : {"lanes"}, helper : BOOLEAN, parses : {TRUE}, whole : {TRUE}]
TornFile ==
  [tag : {"none", "simd", "never"}, code : {"lanes"}, helper : {FALSE}, parses : BOOLEAN, whole : {FALSE}]
AnyFile == {Absent} \union ScalarFile \union LanesFile \union TornFile

OnHost(f) == pkg.on[f] \in {Host, AnySystem}
HasLoop(f) == f \in pkg.loops /\ f \notin pkg.own /\ OnHost(f) /\ \E j \in DOMAIN pkg.order : f = pkg.order[j]

(* Only a file with a loop gets a simd version, and only a source that is  *)
(* guarded, or cut short, needs one.                                       *)
DiskInv ==
  /\ pkg \in Packages
  /\ disk \in [Path -> AnyFile]
  /\ \A f \in Files :
       /\ Simd(f) \notin ScalarFile
       /\ Go(f) \in ScalarFile /\ Go(f).whole /\ pkg.mention[f] # "package" => Go(f).parses
       /\ Go(f) \in ScalarFile /\ (Go(f).tag = "nosimd" \/ ~Go(f).whole) => Simd(f) \in LanesFile
       /\ Simd(f) # Absent => Go(f) # Absent /\ HasLoop(f)
  /\ \A p \in Path :
       /\ disk[p] \in LanesFile \union TornFile => HasLoop(p[1])
       /\ disk[p] \in LanesFile /\ disk[p].helper => p[1] \in pkg.checks
       /\ disk[p] # Absent /\ ~disk[p].whole /\ disk[p].tag = "none" => ~disk[p].parses

(* What the run under way holds in memory is what the disk holds of it.    *)
HoldsLanes == result \in LanesFile /\ (result.helper => Current \in pkg.checks)
HoldsGuarded ==
  /\ result \in ScalarFile /\ result.whole
  /\ pkg.mention[Current] # "package" => result.parses
  /\ pkg.mention[Current] = "nothing" => result.tag = "nosimd"
StepInv ==
  /\ step \in {"file", "write", "simd", "guard", "go"}
  /\ step # "file" =>
       k \in DOMAIN pkg.order /\ Current \in loaded /\ Current \in pkg.loops /\ Current \notin pkg.own
  /\ step \in {"write", "simd", "guard"} => Go(Current).tag = "none" /\ HoldsLanes
  /\ step = "simd" => mode = "split" /\ Simd(Current) = Emptied(result)
  /\ step = "guard" => mode = "split" /\ Simd(Current) = result
  /\ step = "go" => /\ mode \in {"split", "write"} /\ Go(Current) = Emptied(result)
                    /\ mode = "write" => HoldsLanes
                    /\ mode = "split" => Simd(Current) \in LanesFile /\ HoldsGuarded
RunInv ==
  /\ mode \in Mode /\ helper \in BOOLEAN /\ runs \in Nat
  /\ k \in 0..(Len(pkg.order) + 1) /\ (outcome = "running" <=> k > 0)
  /\ loaded \subseteq {f \in Files : Go(f) # Absent /\ OnHost(f)}
  /\ k > 0 => \A f \in Files :
       (Go(f) # Absent /\ Go(f).tag = "none" /\ OnHost(f)) =>
         f \in loaded /\ (Go(f).whole \/ (step = "go" /\ f = Current))
  /\ StepInv

(* A file both of whose versions the simd build takes.                     *)
Pending(f) == Simd(f) # Absent /\ Go(f).tag = "none"
PendingInv ==
  (GuardsAll /\ mode # "print") =>
    /\ \A j \in DOMAIN pkg.order : j < k => ~Pending(pkg.order[j])
    /\ outcome = "ok" => \A f \in Files : ~Pending(f)

(* Files the first run has written lie behind it, and are of one kind.     *)
Behind(f) == \E j \in DOMAIN pkg.order : f = pkg.order[j] /\ (j < k \/ (j = k /\ step \in {"guard", "go"}))
FirstInv ==
  /\ runs = 0 => k = 0 /\ outcome = "none"
  /\ \A f \in Files :
       /\ runs = 0 \/ (runs = 1 /\ mode # "split") => Simd(f) = Absent
       /\ runs = 0 \/ (runs = 1 /\ mode # "write") => Go(f) \notin LanesFile \union TornFile
       /\ (runs = 1 /\ outcome \in {"running", "ok"} /\ Go(f) \in TornFile) => step = "go" /\ f = Current
  /\ (runs = 1 /\ k > 0) => \A p \in Path : disk[p] \in LanesFile => Behind(p[1])

(* The first run writes the helper with the first file that calls it.      *)
HasHelper(p) == disk[p] \in LanesFile /\ disk[p].helper
OneHelper == \A p, q \in Path : HasHelper(p) /\ HasHelper(q) => p = q
HelperWhereCalled ==
  (\E p \in Path : disk[p] \in LanesFile /\ p[1] \in pkg.checks) => \E q \in Path : HasHelper(q)
Unwritten == step \in {"write", "simd"} \/ (step = "go" /\ mode = "write")
InMemory == Unwritten /\ result.helper
HelperInv ==
  (runs = 1 /\ mode # "print") =>
    /\ k > 0 =>
         /\ OneHelper
         /\ ~helper => \A p \in Path : disk[p] \in LanesFile => ~disk[p].helper /\ p[1] \notin pkg.checks
         /\ helper /\ ~InMemory => \E q \in Path : HasHelper(q)
         /\ InMemory => helper /\ \A p \in Path : ~HasHelper(p)
         /\ (Unwritten /\ Current \in pkg.checks) => helper
    /\ outcome = "ok" => OneHelper /\ HelperWhereCalled

Inv == DiskInv /\ RunInv /\ PendingInv /\ FirstInv /\ HelperInv

-----------------------------------------------------------------------------
(* A package lists each of its files once.                                 *)
LEMMA Orders ==
  ASSUME pkg \in Packages
  PROVE  /\ pkg.order \in Seq(Files) /\ Len(pkg.order) \in Nat
         /\ DOMAIN pkg.order = 1..Len(pkg.order)
         /\ \A j \in DOMAIN pkg.order : pkg.order[j] \in Files
         /\ \A i, j \in DOMAIN pkg.order : pkg.order[i] = pkg.order[j] => i = j
<1>1. WellFormed(pkg)
  BY SplitAssumption
<1>2. pkg.order \in Seq(Files)
  BY <1>1 DEF WellFormed, Package
<1> QED
  BY <1>1, <1>2 DEF WellFormed

(* No file is two of absent, scalar, rewritten and torn.                   *)
LEMMA Kinds ==
  /\ \A c \in ScalarFile : /\ c # Absent /\ c \notin LanesFile /\ c \notin TornFile
                           /\ c.tag \in {"none", "nosimd"} /\ c.code = "scalar" /\ c.helper = FALSE
                           /\ c.parses \in BOOLEAN /\ c.whole \in BOOLEAN
  /\ \A c \in LanesFile : /\ c # Absent /\ c \notin ScalarFile /\ c \notin TornFile
                          /\ c.tag = "simd" /\ c.code = "lanes" /\ c.helper \in BOOLEAN
                          /\ c.parses = TRUE /\ c.whole = TRUE
  /\ \A c \in TornFile : /\ c # Absent /\ c \notin ScalarFile /\ c \notin LanesFile
                         /\ c.tag \in {"none", "simd", "never"} /\ c.code = "lanes" /\ c.helper = FALSE
                         /\ c.parses \in BOOLEAN /\ c.whole = FALSE
  /\ Absent \notin ScalarFile /\ Absent \notin LanesFile /\ Absent \notin TornFile /\ Absent.tag = "absent"
<1>1. Absent.tag = "absent"
  BY DEF Absent
<1>2. \A c \in ScalarFile : /\ c.tag \in {"none", "nosimd"} /\ c.code = "scalar" /\ c.helper = FALSE
                            /\ c.parses \in BOOLEAN /\ c.whole \in BOOLEAN
  BY DEF ScalarFile
<1>3. \A c \in LanesFile : /\ c.tag = "simd" /\ c.code = "lanes" /\ c.helper \in BOOLEAN
                           /\ c.parses = TRUE /\ c.whole = TRUE
  BY DEF LanesFile
<1>4. \A c \in TornFile : /\ c.tag \in {"none", "simd", "never"} /\ c.code = "lanes" /\ c.helper = FALSE
                          /\ c.parses \in BOOLEAN /\ c.whole = FALSE
  BY DEF TornFile
<1> QED
  BY <1>1, <1>2, <1>3, <1>4

(* What a write that was stopped leaves of a rewritten file, and of a      *)
(* source.                                                                 *)
LEMMA CutKinds ==
  /\ \A c : Emptied(c) \in CutShort(c)
  /\ \A c \in LanesFile : \A x \in CutShort(c) : x \in TornFile /\ (x.tag = "none" => ~x.parses)
  /\ \A c \in ScalarFile : \A x \in CutShort(c) :
       x \in ScalarFile /\ ~x.whole /\ (x.tag = "none" => ~x.parses)
  /\ \A c : Emptied(c).tag = "none" /\ ~Emptied(c).whole /\ Emptied(c) # Absent
<1>0. ASSUME NEW c, NEW x \in CutShort(c)
      PROVE  \E t \in {"none", c.tag, "never"}, b \in BOOLEAN :
               /\ x = Beginning(c, t, b) /\ (t = "none" => ~b)
               /\ t = "never" => c.tag = "simd" \/ c.tag = "never"
  BY <1>0 DEF CutShort
<1>1. ASSUME NEW c \in LanesFile, NEW x \in CutShort(c) PROVE x \in TornFile /\ (x.tag = "none" => ~x.parses)
  <2>1. PICK t \in {"none", c.tag, "never"}, b \in BOOLEAN : x = Beginning(c, t, b) /\ (t = "none" => ~b)
    BY <1>0
  <2>2. c.tag = "simd" /\ c.code = "lanes"
    BY Kinds
  <2> QED
    BY <2>1, <2>2 DEF Beginning, TornFile
<1>2. ASSUME NEW c \in ScalarFile, NEW x \in CutShort(c)
      PROVE  x \in ScalarFile /\ ~x.whole /\ (x.tag = "none" => ~x.parses)
  <2>1. c.tag \in {"none", "nosimd"} /\ c.code = "scalar"
    BY Kinds
  <2>2. PICK t \in {"none", c.tag}, b \in BOOLEAN : x = Beginning(c, t, b) /\ (t = "none" => ~b)
    BY <1>0, <2>1
  <2> QED
    BY <2>1, <2>2 DEF Beginning, ScalarFile
<1>3. \A c : Emptied(c).tag = "none" /\ ~Emptied(c).whole /\ Emptied(c) # Absent
  BY Kinds DEF Emptied, Beginning
<1> QED
  BY <1>1, <1>2, <1>3 DEF CutShort, Emptied

(* The two files of f are the only ones.                                   *)
LEMMA Paths ==
  /\ \A f \in Files : <<f, "go">> \in Path /\ <<f, "_simd.go">> \in Path
  /\ \A p \in Path : p[1] \in Files /\ (p = <<p[1], "go">> \/ p = <<p[1], "_simd.go">>)
  BY DEF Path

(* A write to f.go, and one to f_simd.go.                                  *)
LEMMA WritesGo ==
  ASSUME disk \in [Path -> AnyFile], NEW f \in Files,
         NEW c \in AnyFile,
         disk' = [disk EXCEPT ![<<f, "go">>] = c]
  PROVE  /\ disk' \in [Path -> AnyFile]
         /\ \A g \in Files : Go(g)' = IF g = f THEN c ELSE Go(g)
         /\ \A g \in Files : Simd(g)' = Simd(g)
         /\ \A p \in Path : p # <<f, "go">> => disk'[p] = disk[p]
         /\ disk'[<<f, "go">>] = c
  BY Paths DEF Go, Simd

LEMMA WritesSimd ==
  ASSUME disk \in [Path -> AnyFile], NEW f \in Files,
         NEW c \in AnyFile,
         disk' = [disk EXCEPT ![<<f, "_simd.go">>] = c]
  PROVE  /\ disk' \in [Path -> AnyFile]
         /\ \A g \in Files : Simd(g)' = IF g = f THEN c ELSE Simd(g)
         /\ \A g \in Files : Go(g)' = Go(g)
         /\ \A p \in Path : p # <<f, "_simd.go">> => disk'[p] = disk[p]
         /\ disk'[<<f, "_simd.go">>] = c
  BY Paths DEF Go, Simd

LEMMA InvInit == Init => Inv
<1> SUFFICES ASSUME Init PROVE Inv
  OBVIOUS
<1> USE DEF Init
<1>0. Source \in ScalarFile /\ Source.tag = "none" /\ Source.parses = TRUE /\ Source.whole = TRUE
  BY DEF Source, ScalarFile
<1>1. \A f \in Files : Simd(f) = Absent /\ Go(f) \in {Absent, Source}
  BY Paths DEF Simd, Go
<1>2. \A p \in Path : disk[p] \in {Absent, Source}
  OBVIOUS
<1>3. DiskInv
  <2>1. disk \in [Path -> AnyFile]
    BY <1>0, <1>2 DEF AnyFile
  <2> QED
    BY <1>0, <1>1, <1>2, <2>1, Kinds, Zenon DEF DiskInv
<1>4. RunInv
  <2>1. k \in 0..(Len(pkg.order) + 1) /\ ~(k > 0) /\ runs \in Nat
    BY <1>3, Orders DEF DiskInv
  <2>2. outcome # "running" /\ mode \in Mode /\ StepInv
    BY DEF Mode, StepInv
  <2> QED
    BY <2>1, <2>2, Zenon DEF RunInv
<1>5. PendingInv /\ HelperInv
  BY <1>3, Orders DEF PendingInv, HelperInv, DiskInv
<1>6. FirstInv
  BY <1>0, <1>1, Kinds DEF FirstInv
<1> QED
  BY <1>3, <1>4, <1>5, <1>6 DEF Inv

-----------------------------------------------------------------------------
(* A file that comes later is not there yet, so neither is a simd version. *)
LEMMA AddKeeps == ASSUME Inv, NEW f \in Files, AddFile(f) PROVE Inv'
<1>0. /\ Source \in ScalarFile /\ Source.tag = "none" /\ Source.parses = TRUE /\ Source.whole = TRUE
      /\ Go(f) = Absent /\ Simd(f) = Absent /\ k = 0 /\ pkg' = pkg /\ pkg \in Packages
      /\ k' = k /\ step' = step /\ mode' = mode /\ loaded' = loaded /\ helper' = helper
      /\ result' = result /\ runs' = runs /\ outcome' = outcome
  BY Kinds, Orders DEF AddFile, processVars, Source, ScalarFile, Inv, DiskInv, Go
<1>1. /\ disk' \in [Path -> AnyFile]
      /\ Go(f)' = Source /\ \A g \in Files : g # f => Go(g)' = Go(g)
      /\ \A g \in Files : Simd(g)' = Simd(g)
      /\ \A p \in Path : p # <<f, "go">> => disk'[p] = disk[p]
      /\ disk'[<<f, "go">>] = Source
  <2>1. disk \in [Path -> AnyFile]
    BY DEF Inv, DiskInv
  <2>2. disk' = [disk EXCEPT ![<<f, "go">>] = Source] /\ Source \in AnyFile
    BY <1>0 DEF AddFile, AnyFile
  <2>3. /\ disk' \in [Path -> AnyFile]
        /\ \A g \in Files : Go(g)' = IF g = f THEN Source ELSE Go(g)
        /\ \A g \in Files : Simd(g)' = Simd(g)
        /\ \A p \in Path : p # <<f, "go">> => disk'[p] = disk[p]
        /\ disk'[<<f, "go">>] = Source
    BY <2>1, <2>2, WritesGo
  <2> QED
    BY <2>3
<1>2. \A p \in Path : disk'[p] = disk[p] \/ disk'[p] = Source
  BY <1>1
<1>3. step = "file" /\ ~(k > 0) /\ ~(k' > 0)
  BY <1>0, Orders DEF Inv, DiskInv, RunInv, StepInv
<1>4. DiskInv'
  BY <1>0, <1>1, <1>2, Kinds DEF Inv, DiskInv, HasLoop, OnHost
<1>5. RunInv'
  BY <1>0, <1>1, <1>3, Kinds DEF Inv, RunInv, StepInv, OnHost
<1>6. PendingInv'
  BY <1>0, <1>1, Orders DEF Inv, PendingInv, Pending, GuardsAll
<1>7. FirstInv'
  BY <1>0, <1>1, <1>3, Kinds DEF Inv, FirstInv
<1>8. \A p \in Path : (disk'[p] \in LanesFile <=> disk[p] \in LanesFile) /\ (HasHelper(p)' <=> HasHelper(p))
  <2>1. Source \notin LanesFile /\ disk[<<f, "go">>] \notin LanesFile
    BY <1>0, Kinds DEF Go
  <2> QED
    BY <1>1, <2>1 DEF HasHelper
<1>9. HelperInv'
  BY <1>0, <1>3, <1>8 DEF Inv, HelperInv, OneHelper, HelperWhereCalled
<1> QED
  BY <1>4, <1>5, <1>6, <1>7, <1>9 DEF Inv

(* What the scalar build on the host takes.                                *)
LEMMA Loads ==
  ASSUME DiskInv
  PROVE  \A f \in Files :
           /\ f \in {p[1] : p \in Takes(Host, FALSE)} => Go(f) # Absent /\ OnHost(f)
           /\ Go(f) # Absent /\ OnHost(f) /\ Go(f).tag = "none" => <<f, "go">> \in Takes(Host, FALSE)
<1> TAKE f \in Files
<1>1. ASSUME NEW p \in Takes(Host, FALSE), p[1] = f PROVE Go(f) # Absent /\ OnHost(f)
  <2>1. p \in Path /\ disk[p] # Absent /\ Suits(p, Host)
    BY <1>1 DEF Takes
  <2>2. p = <<f, "go">> \/ p = <<f, "_simd.go">>
    BY <1>1, <2>1, Paths
  <2>3. CASE p = <<f, "go">>
    BY <2>1, <2>3 DEF Suits, OnHost, Go
  <2>4. CASE p = <<f, "_simd.go">>
    BY <2>1, <2>4 DEF DiskInv, Simd, HasLoop
  <2> QED
    BY <2>2, <2>3, <2>4
<1>2. Go(f) # Absent /\ OnHost(f) /\ Go(f).tag = "none" => <<f, "go">> \in Takes(Host, FALSE)
  BY Paths DEF Takes, Suits, OnHost, Go
<1> QED
  BY <1>1, <1>2

(* A run starts with nothing behind it, and with whole sources.            *)
LEMMA StartKeeps == ASSUME Inv, NEW m \in Modes, Start(m) PROVE Inv'
<1>0. /\ disk' = disk /\ pkg' = pkg /\ pkg \in Packages /\ k = 0 /\ mode' = m /\ m \in Mode
      /\ runs' = runs + 1 /\ helper' = FALSE /\ step' = "file" /\ runs \in Nat
  BY SplitAssumption DEF Start, Inv, DiskInv, RunInv
<1>a. \/ /\ k' = 1 /\ outcome' = "running" /\ loaded' = {p[1] : p \in Takes(Host, FALSE)}
         /\ Compiles(Takes(Host, FALSE))
      \/ k' = 0 /\ outcome' = "error" /\ loaded' = {}
  BY DEF Start
<1>b. (k' = 1 /\ outcome' = "running") \/ (k' = 0 /\ outcome' = "error")
  BY <1>a
<1>c. ~(0 > 0) /\ 1 > 0
  OBVIOUS
<1>1. \A f \in Files : f \in loaded' => Go(f) # Absent /\ OnHost(f)
  BY <1>a, Loads DEF Inv
<1>2. k' > 0 => \A f \in Files :
        (Go(f) # Absent /\ Go(f).tag = "none" /\ OnHost(f)) => f \in loaded' /\ Go(f).whole
  <2> SUFFICES ASSUME k' > 0, NEW f \in Files, Go(f) # Absent, Go(f).tag = "none", OnHost(f)
               PROVE  f \in loaded' /\ Go(f).whole
    OBVIOUS
  <2>1. loaded' = {p[1] : p \in Takes(Host, FALSE)} /\ Compiles(Takes(Host, FALSE))
    BY <1>a, <1>c, Zenon
  <2>2. <<f, "go">> \in Takes(Host, FALSE)
    BY Loads DEF Inv
  <2>3. <<f, "go">>[1] = f
    OBVIOUS
  <2>4. disk[<<f, "go">>].parses
    BY <2>1, <2>2 DEF Compiles
  <2>5. Go(f).whole
    BY <2>4, Paths DEF Inv, DiskInv, Go
  <2> QED
    BY <2>1, <2>2, <2>3, <2>5
<1>3. loaded' \subseteq Files
  BY <1>a, Paths DEF Takes
<1>4. DiskInv'
  BY <1>0 DEF Inv, DiskInv, Go, Simd, HasLoop, OnHost
<1>5. RunInv'
  <2>1. k' \in 0..(Len(pkg'.order) + 1) /\ (outcome' = "running" <=> k' > 0) /\ runs' \in Nat
    <3>1. Len(pkg'.order) \in Nat
      BY <1>0, Orders
    <3> QED
      BY <1>0, <1>b, <3>1
  <2>2. loaded' \subseteq {f \in Files : Go(f)' # Absent /\ OnHost(f)'}
    BY <1>0, <1>1, <1>3 DEF Go, OnHost
  <2>3. k' > 0 => \A f \in Files :
          (Go(f)' # Absent /\ Go(f)'.tag = "none" /\ OnHost(f)') => f \in loaded' /\ Go(f)'.whole
    BY <1>0, <1>2 DEF Go, OnHost
  <2>4. StepInv' /\ mode' \in Mode /\ helper' \in BOOLEAN
    BY <1>0 DEF StepInv
  <2> QED
    BY <2>1, <2>2, <2>3, <2>4 DEF RunInv
<1>6. PendingInv'
  <2>1. \A j \in DOMAIN pkg'.order : ~(j < k') /\ outcome' # "ok"
    <3>1. DOMAIN pkg'.order = 1..Len(pkg'.order) /\ Len(pkg'.order) \in Nat
      BY <1>0, Orders
    <3> QED
      BY <1>0, <1>b, <3>1
  <2> QED
    BY <1>0, <1>b, <2>1, Zenon DEF PendingInv
<1>7. \A f \in Files : runs' = 1 => Simd(f)' = Absent /\ Go(f)' \notin LanesFile \union TornFile
  BY <1>0 DEF Inv, FirstInv, Go, Simd
<1>8. \A p \in Path : runs' = 1 => disk'[p] \notin LanesFile
  <2> TAKE p \in Path
  <2>1. p[1] \in Files /\ (disk'[p] = Go(p[1])' \/ disk'[p] = Simd(p[1])')
    BY Paths DEF Go, Simd
  <2> QED
    BY <1>7, <2>1, Kinds
<1>9. FirstInv'
  BY <1>0, <1>b, <1>7, <1>8 DEF FirstInv
<1>10. HelperInv'
  BY <1>0, <1>b, <1>8 DEF HelperInv, HasHelper, OneHelper, InMemory, Unwritten
<1> QED
  BY <1>4, <1>5, <1>6, <1>9, <1>10 DEF Inv

-----------------------------------------------------------------------------
(* A write to f.go, and one to f_simd.go, that leaves what may be there.   *)
LEMMA GoWritten ==
  ASSUME DiskInv, pkg' = pkg, NEW f \in Files, HasLoop(f), NEW c,
         disk' = [disk EXCEPT ![<<f, "go">>] = c],
         \/ c \in LanesFile /\ (c.helper => f \in pkg.checks)
         \/ c \in TornFile /\ (c.tag = "none" => ~c.parses)
         \/ /\ c \in ScalarFile /\ Simd(f) \in LanesFile
            /\ c.whole /\ pkg.mention[f] # "package" => c.parses
            /\ ~c.whole /\ c.tag = "none" => ~c.parses
  PROVE  /\ DiskInv'
         /\ \A g \in Files : Go(g)' = IF g = f THEN c ELSE Go(g)
         /\ \A g \in Files : Simd(g)' = Simd(g)
         /\ \A p \in Path : p # <<f, "go">> => disk'[p] = disk[p]
         /\ disk'[<<f, "go">>] = c
<1>1. c \in AnyFile /\ c # Absent
  BY Kinds DEF AnyFile
<1>2. disk \in [Path -> AnyFile]
  BY DEF DiskInv
<1>3. /\ disk' \in [Path -> AnyFile]
      /\ \A g \in Files : Go(g)' = IF g = f THEN c ELSE Go(g)
      /\ \A g \in Files : Simd(g)' = Simd(g)
      /\ \A p \in Path : p # <<f, "go">> => disk'[p] = disk[p]
      /\ disk'[<<f, "go">>] = c
  BY <1>1, <1>2, WritesGo
<1>4. \A g \in Files :
        /\ Simd(g)' \notin ScalarFile
        /\ Go(g)' \in ScalarFile /\ Go(g)'.whole /\ pkg.mention[g] # "package" => Go(g)'.parses
        /\ Go(g)' \in ScalarFile /\ (Go(g)'.tag = "nosimd" \/ ~Go(g)'.whole) => Simd(g)' \in LanesFile
        /\ Simd(g)' # Absent => Go(g)' # Absent /\ HasLoop(g)
  BY <1>1, <1>3, Kinds DEF DiskInv
<1>5. \A p \in Path :
        /\ disk'[p] \in LanesFile \union TornFile => HasLoop(p[1])
        /\ disk'[p] \in LanesFile /\ disk'[p].helper => p[1] \in pkg.checks
        /\ disk'[p] # Absent /\ ~disk'[p].whole /\ disk'[p].tag = "none" => ~disk'[p].parses
  <2> TAKE p \in Path
  <2>1. CASE p = <<f, "go">>
    <3>1. disk'[p] = c /\ p[1] = f
      BY <1>3, <2>1
    <3> QED
      BY <3>1, Kinds
  <2>2. CASE p # <<f, "go">>
    BY <1>3, <2>2 DEF DiskInv
  <2> QED
    BY <2>1, <2>2
<1>6. \A g \in Files : HasLoop(g)' <=> HasLoop(g)
  BY DEF HasLoop, OnHost
<1>7. DiskInv'
  BY <1>3, <1>4, <1>5, <1>6, Paths DEF DiskInv
<1> QED
  BY <1>3, <1>7

LEMMA SimdWritten ==
  ASSUME DiskInv, pkg' = pkg, NEW f \in Files, HasLoop(f), NEW c,
         Go(f) # Absent, Go(f).tag = "none", Go(f).whole,
         disk' = [disk EXCEPT ![<<f, "_simd.go">>] = c],
         \/ c \in LanesFile /\ (c.helper => f \in pkg.checks)
         \/ c \in TornFile /\ (c.tag = "none" => ~c.parses)
  PROVE  /\ DiskInv'
         /\ \A g \in Files : Simd(g)' = IF g = f THEN c ELSE Simd(g)
         /\ \A g \in Files : Go(g)' = Go(g)
         /\ \A p \in Path : p # <<f, "_simd.go">> => disk'[p] = disk[p]
         /\ disk'[<<f, "_simd.go">>] = c
<1>1. c \in AnyFile /\ c # Absent /\ c \notin ScalarFile
  BY Kinds DEF AnyFile
<1>2. disk \in [Path -> AnyFile]
  BY DEF DiskInv
<1>3. /\ disk' \in [Path -> AnyFile]
      /\ \A g \in Files : Simd(g)' = IF g = f THEN c ELSE Simd(g)
      /\ \A g \in Files : Go(g)' = Go(g)
      /\ \A p \in Path : p # <<f, "_simd.go">> => disk'[p] = disk[p]
      /\ disk'[<<f, "_simd.go">>] = c
  BY <1>1, <1>2, WritesSimd
<1>4. \A g \in Files :
        /\ Simd(g)' \notin ScalarFile
        /\ Go(g)' \in ScalarFile /\ Go(g)'.whole /\ pkg.mention[g] # "package" => Go(g)'.parses
        /\ Go(g)' \in ScalarFile /\ (Go(g)'.tag = "nosimd" \/ ~Go(g)'.whole) => Simd(g)' \in LanesFile
        /\ Simd(g)' # Absent => Go(g)' # Absent /\ HasLoop(g)
  BY <1>1, <1>3, Kinds DEF DiskInv
<1>5. \A p \in Path :
        /\ disk'[p] \in LanesFile \union TornFile => HasLoop(p[1])
        /\ disk'[p] \in LanesFile /\ disk'[p].helper => p[1] \in pkg.checks
        /\ disk'[p] # Absent /\ ~disk'[p].whole /\ disk'[p].tag = "none" => ~disk'[p].parses
  <2> TAKE p \in Path
  <2>1. CASE p = <<f, "_simd.go">>
    <3>1. disk'[p] = c /\ p[1] = f
      BY <1>3, <2>1
    <3> QED
      BY <3>1, Kinds
  <2>2. CASE p # <<f, "_simd.go">>
    BY <1>3, <2>2 DEF DiskInv
  <2> QED
    BY <2>1, <2>2
<1>6. \A g \in Files : HasLoop(g)' <=> HasLoop(g)
  BY DEF HasLoop, OnHost
<1>7. DiskInv'
  BY <1>3, <1>4, <1>5, <1>6, Paths DEF DiskInv
<1> QED
  BY <1>3, <1>7

(* The file a run is at.                                                   *)
LEMMA AtCurrent ==
  ASSUME Inv, k \in DOMAIN pkg.order
  PROVE  /\ pkg \in Packages /\ k \in Nat /\ k > 0 /\ Current \in Files /\ outcome = "running"
         /\ k + 1 \in 0..(Len(pkg.order) + 1) /\ k + 1 > 0 /\ runs # 0
         /\ \A j \in DOMAIN pkg.order : j < k + 1 => j < k \/ pkg.order[j] = Current
         /\ \A j \in DOMAIN pkg.order : j < k => pkg.order[j] \in Files /\ pkg.order[j] # Current
         /\ step # "file" => HasLoop(Current) /\ OnHost(Current) /\ Go(Current) # Absent
         /\ step \in {"write", "simd", "guard"} =>
              Go(Current) \in ScalarFile /\ Go(Current).whole /\ Go(Current).tag = "none"
<1>1. /\ pkg \in Packages /\ k \in Nat /\ k > 0 /\ Current \in Files /\ outcome = "running"
      /\ k + 1 \in 0..(Len(pkg.order) + 1) /\ k + 1 > 0 /\ runs # 0
  BY Orders DEF Inv, DiskInv, RunInv, FirstInv, Current
<1>2. \A j \in DOMAIN pkg.order : j < k + 1 => j < k \/ pkg.order[j] = Current
  <2>1. \A j \in DOMAIN pkg.order : j < k + 1 => j < k \/ j = k
    BY <1>1, Orders
  <2> QED
    BY <2>1 DEF Current
<1>3. \A j \in DOMAIN pkg.order : j < k => pkg.order[j] \in Files /\ pkg.order[j] # Current
  BY <1>1, Orders DEF Current
<1>4. step # "file" => HasLoop(Current) /\ OnHost(Current) /\ Go(Current) # Absent
  BY DEF Inv, RunInv, StepInv, HasLoop, Current
<1>5. ASSUME step \in {"write", "simd", "guard"}
      PROVE  Go(Current) \in ScalarFile /\ Go(Current).whole /\ Go(Current).tag = "none"
  <2>1. Go(Current).tag = "none" /\ Go(Current) # Absent /\ OnHost(Current) /\ step # "go"
    BY <1>4, <1>5 DEF Inv, RunInv, StepInv
  <2>2. Go(Current).whole
    BY <1>1, <2>1 DEF Inv, RunInv
  <2>3. Go(Current) \in AnyFile
    BY <1>1, Paths DEF Inv, DiskInv, Go
  <2> QED
    BY <2>1, <2>2, <2>3, Kinds DEF AnyFile
<1> QED
  BY <1>1, <1>2, <1>3, <1>4, <1>5

(* A run that goes on, having written no file but those of c.              *)
LEMMA PendingMoves ==
  ASSUME Inv, k \in DOMAIN pkg.order, NEW c \in Files, c = Current,
         pkg' = pkg, mode' = mode, outcome' = outcome, k' \in {k, k + 1},
         \A g \in Files : g # c => Go(g)' = Go(g) /\ Simd(g)' = Simd(g),
         (k' = k + 1 /\ GuardsAll /\ mode # "print") => ~Pending(c)'
  PROVE  PendingInv'
<1>1. outcome' # "ok" /\ (GuardsAll' <=> GuardsAll)
  BY AtCurrent DEF GuardsAll
<1>2. ASSUME GuardsAll, mode # "print", NEW j \in DOMAIN pkg.order, j < k' PROVE ~Pending(pkg.order[j])'
  <2>1. CASE j < k
    BY <1>2, <2>1, AtCurrent DEF Inv, PendingInv, Pending
  <2>2. CASE ~(j < k)
    <3>1. k' = k + 1 /\ pkg.order[j] = c
      BY <1>2, <2>2, AtCurrent
    <3> QED
      BY <1>2, <3>1 DEF Pending
  <2> QED
    BY <2>1, <2>2
<1> QED
  BY <1>1, <1>2 DEF PendingInv

LEMMA FirstMoves ==
  ASSUME Inv, k \in DOMAIN pkg.order, NEW c \in Files, c = Current,
         pkg' = pkg, mode' = mode, runs' = runs, outcome' = outcome, k' \in {k, k + 1},
         \A g \in Files : g # c => Go(g)' = Go(g) /\ Simd(g)' = Simd(g),
         mode # "split" => Simd(c)' = Simd(c),
         mode # "write" => Go(c)' \notin LanesFile \union TornFile,
         Go(c)' \in TornFile => step' = "go" /\ k' = k,
         step \in {"guard", "go"} => k' = k + 1 \/ step' \in {"guard", "go"},
         (Go(c)' \in LanesFile \/ Simd(c)' \in LanesFile) => k' = k + 1 \/ step' \in {"guard", "go"}
  PROVE  FirstInv'
<1>1. runs' # 0 /\ outcome = "running"
  BY AtCurrent
<1>2. \A f \in Files : Behind(f) => Behind(f)'
  <2>1. \A j \in DOMAIN pkg.order : j < k => j < k'
    BY AtCurrent, Orders
  <2>2. k' = k + 1 => k < k'
    BY AtCurrent
  <2>3. step \in {"guard", "go"} => k < k' \/ (k = k' /\ step' \in {"guard", "go"})
    BY <2>2
  <2> QED
    BY <2>1, <2>3 DEF Behind
<1>3. (Go(c)' \in LanesFile \/ Simd(c)' \in LanesFile) => Behind(c)'
  <2>1. k' = k + 1 => k < k'
    BY AtCurrent
  <2> QED
    BY <2>1 DEF Behind, Current
<1>4. runs = 1 => \A p \in Path : disk'[p] \in LanesFile => Behind(p[1])'
  <2> SUFFICES ASSUME runs = 1, NEW p \in Path, disk'[p] \in LanesFile PROVE Behind(p[1])'
    OBVIOUS
  <2>1. p[1] \in Files /\ (p = <<p[1], "go">> \/ p = <<p[1], "_simd.go">>)
    BY Paths
  <2>2. CASE p[1] = c
    <3>1. Go(c)' \in LanesFile \/ Simd(c)' \in LanesFile
      BY <2>1, <2>2 DEF Go, Simd
    <3> QED
      BY <1>3, <2>2, <3>1
  <2>3. CASE p[1] # c
    <3>1. disk[p] \in LanesFile
      BY <2>1, <2>3 DEF Go, Simd
    <3> QED
      BY <1>2, <2>1, <3>1, AtCurrent DEF Inv, FirstInv
  <2> QED
    BY <2>2, <2>3
<1>5. \A f \in Files : (runs = 1 /\ Go(f)' \in TornFile) => step' = "go" /\ f = Current'
  <2> SUFFICES ASSUME NEW f \in Files, runs = 1, Go(f)' \in TornFile PROVE step' = "go" /\ f = Current'
    OBVIOUS
  <2>1. f = c
    BY <1>1 DEF Inv, FirstInv
  <2> QED
    BY <2>1 DEF Current
<1> QED
  BY <1>1, <1>4, <1>5 DEF Inv, FirstInv

(* What a run says of the helper stays true while no rewritten file comes  *)
(* or goes.                                                                *)
LEMMA LanesStay ==
  ASSUME Inv, outcome = "running", k > 0,
         pkg' = pkg, mode' = mode, runs' = runs, helper' = helper, outcome' = outcome,
         runs = 1 => \A p \in Path : /\ disk'[p] \in LanesFile <=> disk[p] \in LanesFile
                                     /\ disk'[p] \in LanesFile => disk'[p] = disk[p],
         InMemory' <=> InMemory,
         (Unwritten' /\ Current' \in pkg.checks) => helper \/ mode = "print" \/ runs # 1
  PROVE  HelperInv'
<1> SUFFICES ASSUME runs = 1, mode # "print"
             PROVE  /\ OneHelper'
                    /\ ~helper => \A p \in Path : disk'[p] \in LanesFile => ~disk'[p].helper /\ p[1] \notin pkg.checks
                    /\ helper /\ ~InMemory => \E q \in Path : HasHelper(q)'
                    /\ InMemory => helper /\ \A p \in Path : ~HasHelper(p)'
  BY DEF HelperInv
<1>1. \A p \in Path : HasHelper(p)' <=> HasHelper(p)
  <2> TAKE p \in Path
  <2>1. (disk'[p] \in LanesFile <=> disk[p] \in LanesFile) /\ (disk'[p] \in LanesFile => disk'[p].helper = disk[p].helper)
    OBVIOUS
  <2> QED
    BY <2>1 DEF HasHelper
<1>2. OneHelper'
  <2>1. \A p, q \in Path : HasHelper(p)' /\ HasHelper(q)' => p = q
    BY <1>1 DEF Inv, HelperInv, OneHelper
  <2> QED
    BY <2>1 DEF OneHelper, Path
<1>3. ~helper => \A p \in Path : disk'[p] \in LanesFile => ~disk'[p].helper /\ p[1] \notin pkg.checks
  BY DEF Inv, HelperInv
<1> QED
  BY <1>1, <1>2, <1>3 DEF Inv, HelperInv

-----------------------------------------------------------------------------
(* A file with two versions that a run comes to is rewritten again.        *)
LEMMA PendingIsRewritten ==
  ASSUME Inv, AtFile("file"), Pending(Current) PROVE Rewritable(Current)
<1>1. Current \in Files /\ k > 0
  BY AtCurrent DEF AtFile
<1>2. HasLoop(Current) /\ Go(Current) # Absent /\ Go(Current).tag = "none"
  BY <1>1 DEF Inv, DiskInv, Pending
<1>3. Current \in loaded
  BY <1>1, <1>2 DEF Inv, RunInv, HasLoop
<1> QED
  BY <1>2, <1>3 DEF Rewritable, Constrained, HasLoop, Go

LEMMA PassOverKeeps == ASSUME Inv, PassOver PROVE Inv'
<1>0. /\ disk' = disk /\ pkg' = pkg /\ k' = k + 1 /\ step' = "file" /\ step = "file"
      /\ k \in DOMAIN pkg.order /\ ~Rewritable(Current)
      /\ mode' = mode /\ loaded' = loaded /\ helper' = helper /\ runs' = runs /\ outcome' = outcome
  BY DEF PassOver, AtFile, NextFile
<1>1. DiskInv'
  BY <1>0 DEF Inv, DiskInv, Go, Simd, HasLoop, OnHost
<1>2. RunInv'
  BY <1>0, AtCurrent DEF Inv, RunInv, StepInv, Go, OnHost
<1>3. PendingInv'
  <2>1. ~Pending(Current)
    BY <1>0, PendingIsRewritten DEF AtFile
  <2> QED
    BY <1>0, <2>1, AtCurrent, PendingMoves DEF Pending, Go, Simd
<1>4. FirstInv'
  <2>1. PICK c \in Files : c = Current
    BY <1>0, AtCurrent
  <2>2. runs = 1 => /\ mode # "write" => Go(c) \notin LanesFile \union TornFile
                    /\ Go(c) \notin TornFile
                    /\ Go(c) \in LanesFile \/ Simd(c) \in LanesFile => k' = k + 1
    BY <1>0, AtCurrent DEF Inv, FirstInv
  <2>3. \A f \in Files : Go(f)' = Go(f) /\ Simd(f)' = Simd(f)
    BY <1>0 DEF Go, Simd
  <2>4. runs = 1 => FirstInv'
    BY <1>0, <2>1, <2>2, <2>3, FirstMoves
  <2> QED
    BY <1>0, <2>4, AtCurrent DEF FirstInv
<1>5. HelperInv'
  BY <1>0, AtCurrent, LanesStay DEF InMemory, Unwritten
<1> QED
  BY <1>1, <1>2, <1>3, <1>4, <1>5 DEF Inv

LEMMA PrintKeeps == ASSUME Inv, PrintResult PROVE Inv'
<1>0. /\ disk' = disk /\ pkg' = pkg /\ k' = k + 1 /\ step' = "file" /\ step = "write"
      /\ k \in DOMAIN pkg.order /\ mode = "print"
      /\ mode' = mode /\ loaded' = loaded /\ helper' = helper /\ runs' = runs /\ outcome' = outcome
  BY DEF PrintResult, AtFile, NextFile
<1>1. DiskInv'
  BY <1>0 DEF Inv, DiskInv, Go, Simd, HasLoop, OnHost
<1>2. RunInv'
  BY <1>0, AtCurrent DEF Inv, RunInv, StepInv, Go, OnHost
<1>3. PendingInv' /\ HelperInv'
  BY <1>0 DEF PendingInv, HelperInv
<1>4. FirstInv'
  <2>1. \A j \in DOMAIN pkg.order : j < k => j < k + 1
    BY <1>0, AtCurrent, Orders
  <2> QED
    BY <1>0, <2>1, AtCurrent DEF Inv, FirstInv, Go, Simd, Behind
<1> QED
  BY <1>1, <1>2, <1>3, <1>4 DEF Inv

(* The first file of a run to call the helper is to define it.             *)
LEMMA RewriteKeeps == ASSUME Inv, RewriteFile PROVE Inv'
<1>0. /\ disk' = disk /\ pkg' = pkg /\ k' = k /\ step' = "write" /\ step = "file"
      /\ k \in DOMAIN pkg.order /\ Rewritable(Current)
      /\ mode' = mode /\ loaded' = loaded /\ runs' = runs /\ outcome' = outcome
      /\ helper' = (helper \/ DefinesHelper) /\ result' = RewriteResult
  BY DEF RewriteFile, AtFile
<1>1. /\ Current' = Current /\ DefinesHelper \in BOOLEAN /\ helper \in BOOLEAN /\ helper' \in BOOLEAN
      /\ k > 0 /\ Current \in Files
  BY <1>0, AtCurrent DEF Current, DefinesHelper, Inv, RunInv
<1>2. result' \in LanesFile /\ (result'.helper <=> DefinesHelper)
  BY <1>0, <1>1 DEF RewriteResult, LanesFile
<1>3. DiskInv'
  BY <1>0 DEF Inv, DiskInv, Go, Simd, HasLoop, OnHost
<1>4. RunInv'
  <2>1. /\ Current \in loaded /\ Current \in pkg.loops /\ Current \notin pkg.own
        /\ Go(Current).tag = "none" /\ (result'.helper => Current \in pkg.checks)
    BY <1>0, <1>2 DEF Rewritable, Constrained, Go, DefinesHelper
  <2>2. StepInv'
    BY <1>0, <1>1, <1>2, <2>1 DEF StepInv, HoldsLanes, Go
  <2> QED
    BY <1>0, <1>1, <2>2 DEF Inv, RunInv, Go, OnHost
<1>5. PendingInv'
  BY <1>0 DEF Inv, PendingInv, Pending, Go, Simd, GuardsAll
<1>6. FirstInv'
  <2>1. runs # 0 /\ outcome = "running" /\ \A f \in Files : runs = 1 => Go(f) \notin TornFile
    BY <1>0, AtCurrent DEF Inv, FirstInv
  <2>2. \A f \in Files : Behind(f) => Behind(f)'
    BY <1>0 DEF Behind
  <2> QED
    BY <1>0, <2>1, <2>2, Paths DEF Inv, FirstInv, Go, Simd
<1>7. HelperInv'
  <2>1. InMemory' <=> DefinesHelper
    BY <1>0, <1>2 DEF InMemory, Unwritten
  <2>2. \A p \in Path : HasHelper(p)' <=> HasHelper(p)
    BY <1>0 DEF HasHelper
  <2>3. ~InMemory /\ outcome # "ok"
    BY <1>0, AtCurrent DEF InMemory, Unwritten
  <2> SUFFICES ASSUME runs = 1, mode # "print"
               PROVE  /\ OneHelper
                      /\ ~helper' => \A p \in Path : disk[p] \in LanesFile => ~disk[p].helper /\ p[1] \notin pkg.checks
                      /\ helper' /\ ~InMemory' => \E q \in Path : HasHelper(q)
                      /\ InMemory' => helper' /\ \A p \in Path : ~HasHelper(p)
                      /\ Current \in pkg.checks => helper'
    BY <1>0, <1>1, <2>2, <2>3 DEF HelperInv, OneHelper
  <2> QED
    BY <1>0, <1>1, <2>1, <2>3 DEF Inv, HelperInv, DefinesHelper, HasHelper
<1> QED
  BY <1>3, <1>4, <1>5, <1>6, <1>7 DEF Inv

(* The rewritten file goes into the place of one that is not.              *)
LEMMA HelperWritten ==
  ASSUME Inv, k > 0, Unwritten, result \in LanesFile,
         pkg' = pkg, mode' = mode, runs' = runs, helper' = helper, outcome' = outcome, outcome = "running",
         ~Unwritten', NEW w \in Path, w[1] = Current, disk[w] \notin LanesFile, disk'[w] = result,
         \A p \in Path : p # w => disk'[p] = disk[p]
  PROVE  HelperInv'
<1> SUFFICES ASSUME runs = 1, mode # "print"
             PROVE  /\ OneHelper'
                    /\ ~helper => \A p \in Path : disk'[p] \in LanesFile => ~disk'[p].helper /\ p[1] \notin pkg.checks
                    /\ helper => \E q \in Path : HasHelper(q)'
  BY DEF HelperInv, InMemory
<1>1. result.helper \in BOOLEAN
  BY Kinds
<1>2. InMemory <=> result.helper
  BY <1>1 DEF InMemory
<1>3. \A p \in Path : HasHelper(p)' <=> IF p = w THEN result.helper ELSE HasHelper(p)
  BY <1>1 DEF HasHelper
<1>4. ~HasHelper(w)
  BY DEF HasHelper
<1>5. OneHelper'
  <2>1. \A p, q \in Path : HasHelper(p)' /\ HasHelper(q)' => p = q
    BY <1>1, <1>2, <1>3 DEF Inv, HelperInv, OneHelper
  <2> QED
    BY <2>1 DEF OneHelper, Path
<1>6. ~helper => \A p \in Path : disk'[p] \in LanesFile => ~disk'[p].helper /\ p[1] \notin pkg.checks
  BY <1>1, <1>2 DEF Inv, HelperInv
<1>7. helper => \E q \in Path : HasHelper(q)'
  BY <1>1, <1>2, <1>3, <1>4 DEF Inv, HelperInv
<1> QED
  BY <1>5, <1>6, <1>7

(* f_simd.go is emptied, with f.go whole.                                  *)
LEMMA CreateSimdKeeps == ASSUME Inv, CreateSimd PROVE Inv'
<1> DEFINE e == Emptied(result)
<1>0. /\ pkg' = pkg /\ k' = k /\ step' = "simd" /\ step = "write" /\ k \in DOMAIN pkg.order
      /\ mode = "split" /\ mode' = mode /\ loaded' = loaded /\ helper' = helper /\ runs' = runs
      /\ outcome' = outcome /\ result' = result /\ Current' = Current
      /\ disk' = [disk EXCEPT ![<<Current, "_simd.go">>] = e]
  BY DEF CreateSimd, Truncate, AtFile, Current
<1>c. PICK c \in Files : c = Current
  BY <1>0, AtCurrent
<1>1. /\ c \in Files /\ HasLoop(c) /\ OnHost(c) /\ Go(c) # Absent /\ Go(c).tag = "none" /\ Go(c).whole
      /\ k > 0 /\ outcome = "running"
  BY <1>0, <1>c, AtCurrent
<1>2. c \in loaded /\ c \in pkg.loops /\ c \notin pkg.own /\ result \in LanesFile /\ (result.helper => c \in pkg.checks)
  BY <1>0, <1>c DEF Inv, RunInv, StepInv, HoldsLanes
<1>3. e \in TornFile /\ (e.tag = "none" => ~e.parses) /\ e # Absent /\ e \notin LanesFile
  BY <1>2, CutKinds, Kinds
<1> HIDE DEF e
<1>4. /\ DiskInv'
      /\ \A g \in Files : Simd(g)' = IF g = c THEN e ELSE Simd(g)
      /\ \A g \in Files : Go(g)' = Go(g)
      /\ \A p \in Path : p # <<c, "_simd.go">> => disk'[p] = disk[p]
      /\ disk'[<<c, "_simd.go">>] = e
  BY <1>0, <1>c, <1>1, <1>3, SimdWritten DEF Inv
<1>5. RunInv'
  <2>1. StepInv'
    <3>1. Simd(c)' = e /\ Go(c)' = Go(c) /\ Current' = c /\ Current = c
      BY <1>0, <1>c, <1>1, <1>4
    <3> QED
      BY <1>0, <1>c, <1>1, <1>2, <3>1 DEF StepInv, HoldsLanes, Go, Simd, e
  <2> QED
    BY <1>0, <1>c, <1>1, <1>4, <2>1 DEF Inv, RunInv, OnHost
<1>6. PendingInv'
  <2>1. k' # k + 1
    BY <1>0, AtCurrent
  <2> QED
    BY <1>0, <1>c, <1>1, <1>4, <2>1, PendingMoves
<1>7. FirstInv'
  <2>1. runs = 1 => Go(c) \notin LanesFile \union TornFile
    BY <1>0, <1>c, <1>1 DEF Inv, FirstInv
  <2>2. runs = 1 => FirstInv'
    BY <1>0, <1>c, <1>1, <1>3, <1>4, <2>1, FirstMoves
  <2> QED
    BY <1>0, <1>c, <2>2, AtCurrent DEF FirstInv
<1>8. HelperInv'
  <2>1. runs = 1 => disk[<<c, "_simd.go">>] \notin LanesFile
    <3> SUFFICES ASSUME runs = 1, disk[<<c, "_simd.go">>] \in LanesFile PROVE FALSE
      OBVIOUS
    <3>1. <<c, "_simd.go">> \in Path /\ <<c, "_simd.go">>[1] = c
      BY <1>c, <1>1, Paths
    <3>2. Behind(c)
      BY <1>c, <1>1, <3>1 DEF Inv, FirstInv
    <3> QED
      BY <1>0, <1>c, <3>2, AtCurrent DEF Behind
  <2>2. runs = 1 => \A p \in Path : /\ disk'[p] \in LanesFile <=> disk[p] \in LanesFile
                                    /\ disk'[p] \in LanesFile => disk'[p] = disk[p]
    BY <1>3, <1>4, <2>1
  <2>3. /\ InMemory' <=> InMemory
        /\ (Unwritten' /\ Current' \in pkg.checks) => helper \/ mode = "print" \/ runs # 1
    BY <1>0, <1>c, <1>1 DEF InMemory, Unwritten, Inv, HelperInv
  <2> QED
    BY <1>0, <1>c, <1>1, <2>2, <2>3, LanesStay
<1> QED
  BY <1>4, <1>5, <1>6, <1>7, <1>8 DEF Inv

(* f_simd.go is written, with f.go still to be guarded.                    *)
LEMMA WriteSimdKeeps == ASSUME Inv, WriteSimd PROVE Inv'
<1>0. /\ pkg' = pkg /\ k' = k /\ step' = "guard" /\ step = "simd" /\ k \in DOMAIN pkg.order
      /\ mode' = mode /\ loaded' = loaded /\ helper' = helper /\ runs' = runs
      /\ outcome' = outcome /\ result' = result /\ Current' = Current
      /\ disk' = [disk EXCEPT ![<<Current, "_simd.go">>] = result]
  BY DEF WriteSimd, Write, Written, AtFile, Current
<1>c. PICK c \in Files : c = Current
  BY <1>0, AtCurrent
<1>1. /\ c \in Files /\ HasLoop(c) /\ OnHost(c) /\ Go(c) # Absent /\ Go(c).tag = "none" /\ Go(c).whole
      /\ k > 0 /\ outcome = "running"
  BY <1>0, <1>c, AtCurrent
<1>2. /\ c \in loaded /\ c \in pkg.loops /\ c \notin pkg.own /\ result \in LanesFile
      /\ (result.helper => c \in pkg.checks) /\ mode = "split" /\ Simd(c) = Emptied(result)
  BY <1>0, <1>c DEF Inv, RunInv, StepInv, HoldsLanes
<1>3. Simd(c) \notin LanesFile
  BY <1>2, CutKinds, Kinds
<1>4. /\ DiskInv'
      /\ \A g \in Files : Simd(g)' = IF g = c THEN result ELSE Simd(g)
      /\ \A g \in Files : Go(g)' = Go(g)
      /\ \A p \in Path : p # <<c, "_simd.go">> => disk'[p] = disk[p]
      /\ disk'[<<c, "_simd.go">>] = result
  BY <1>0, <1>c, <1>1, <1>2, SimdWritten DEF Inv
<1>5. RunInv'
  <2>1. StepInv'
    <3>1. Simd(c)' = result /\ Go(c)' = Go(c) /\ Current' = c /\ Current = c
      BY <1>0, <1>c, <1>1, <1>4
    <3> QED
      BY <1>0, <1>c, <1>1, <1>2, <3>1 DEF StepInv, HoldsLanes, Go, Simd
  <2> QED
    BY <1>0, <1>c, <1>1, <1>4, <2>1 DEF Inv, RunInv, OnHost
<1>6. PendingInv'
  <2>1. k' # k + 1
    BY <1>0, AtCurrent
  <2> QED
    BY <1>0, <1>c, <1>1, <1>4, <2>1, PendingMoves
<1>7. FirstInv'
  <2>1. runs = 1 => Go(c) \notin LanesFile \union TornFile
    BY <1>c, <1>1, <1>2 DEF Inv, FirstInv
  <2>2. runs = 1 => FirstInv'
    BY <1>0, <1>c, <1>1, <1>2, <1>4, <2>1, FirstMoves
  <2> QED
    BY <1>0, <1>c, <2>2, AtCurrent DEF FirstInv
<1>8. HelperInv'
  <2>1. <<c, "_simd.go">> \in Path /\ <<c, "_simd.go">>[1] = c /\ disk[<<c, "_simd.go">>] \notin LanesFile /\ c = Current
    BY <1>c, <1>1, <1>3, Paths DEF Simd
  <2>2. Unwritten /\ ~Unwritten'
    BY <1>0, <1>c DEF Unwritten
  <2> QED
    BY <1>0, <1>c, <1>1, <1>2, <1>4, <2>1, <2>2, HelperWritten
<1> QED
  BY <1>4, <1>5, <1>6, <1>7, <1>8 DEF Inv

(* addBuildTag leaves a scalar file, and a guarded one where it should.    *)
LEMMA TaggedIsScalar ==
  ASSUME NEW f \in Files, NEW c \in ScalarFile, c.tag = "none"
  PROVE  /\ Tagged(f, c) \in ScalarFile /\ Tagged(f, c).whole = c.whole
         /\ pkg.mention[f] # "package" => Tagged(f, c).parses = c.parses
         /\ pkg.mention[f] = "nothing" => Tagged(f, c).tag = "nosimd"
  BY DEF Tagged, ScalarFile

(* f.go is emptied, by -split with f_simd.go written.                      *)
LEMMA EmptyKeeps == ASSUME Inv, EmptyOriginal \/ EmptySource PROVE Inv'
<1> DEFINE t == IF step = "guard" THEN Tagged(Current, Go(Current)) ELSE result
           e == Emptied(t)
<1>0. /\ pkg' = pkg /\ k' = k /\ step' = "go" /\ k \in DOMAIN pkg.order
      /\ step = "guard" \/ (step = "write" /\ mode = "write")
      /\ mode' = mode /\ loaded' = loaded /\ helper' = helper /\ runs' = runs
      /\ outcome' = outcome /\ result' = t /\ Current' = Current
      /\ disk' = [disk EXCEPT ![<<Current, "go">>] = e]
  BY DEF EmptyOriginal, EmptySource, Truncate, AtFile, Current, Go
<1>c. PICK c \in Files : c = Current
  BY <1>0, AtCurrent
<1>1. /\ c \in Files /\ HasLoop(c) /\ OnHost(c) /\ Go(c) \in ScalarFile /\ Go(c).tag = "none" /\ Go(c).whole
      /\ k > 0 /\ outcome = "running" /\ pkg \in Packages
  BY <1>0, <1>c, AtCurrent
<1>2. /\ c \in loaded /\ c \in pkg.loops /\ c \notin pkg.own /\ result \in LanesFile
      /\ (result.helper => c \in pkg.checks) /\ (step = "guard" => mode = "split" /\ Simd(c) \in LanesFile)
  BY <1>0, <1>c DEF Inv, RunInv, StepInv, HoldsLanes
<1>3. step = "guard" => /\ t \in ScalarFile /\ t.whole
                        /\ pkg.mention[c] # "package" => t.parses
                        /\ pkg.mention[c] = "nothing" => t.tag = "nosimd"
  <2>1. pkg.mention[c] # "package" => Go(c).parses
    BY <1>c, <1>1 DEF Inv, DiskInv
  <2> QED
    BY <1>c, <1>1, <2>1, TaggedIsScalar, Kinds
<1>4. step # "guard" => t \in LanesFile /\ (t.helper => c \in pkg.checks)
  BY <1>2
<1> HIDE DEF t
<1>5. /\ e # Absent /\ e.tag = "none" /\ ~e.whole /\ ~e.parses /\ e \notin LanesFile
      /\ step = "guard" => e \in ScalarFile /\ e \notin TornFile
      /\ step # "guard" => e \in TornFile
  <2>1. e \in CutShort(t) /\ e.tag = "none" /\ ~e.whole /\ e # Absent
    BY CutKinds
  <2>2. ~e.parses
    BY DEF Emptied, Beginning
  <2>3. step = "guard" => e \in ScalarFile
    BY <1>3, <2>1, CutKinds
  <2>4. step # "guard" => e \in TornFile
    BY <1>4, <2>1, CutKinds
  <2> QED
    BY <2>1, <2>2, <2>3, <2>4, Kinds
<1> HIDE DEF e
<1>6. /\ DiskInv'
      /\ \A g \in Files : Go(g)' = IF g = c THEN e ELSE Go(g)
      /\ \A g \in Files : Simd(g)' = Simd(g)
      /\ \A p \in Path : p # <<c, "go">> => disk'[p] = disk[p]
      /\ disk'[<<c, "go">>] = e
  <2>1. \/ e \in TornFile /\ (e.tag = "none" => ~e.parses)
        \/ /\ e \in ScalarFile /\ Simd(c) \in LanesFile
           /\ e.whole /\ pkg.mention[c] # "package" => e.parses
           /\ ~e.whole /\ e.tag = "none" => ~e.parses
    BY <1>2, <1>5
  <2>2. DiskInv /\ disk' = [disk EXCEPT ![<<c, "go">>] = e]
    BY <1>0, <1>c DEF Inv
  <2> QED
    BY <1>0, <1>1, <2>1, <2>2, GoWritten
<1>7. RunInv'
  <2>1. StepInv'
    <3>1. Go(c)' = e /\ Simd(c)' = Simd(c) /\ Current' = c /\ Current = c
      BY <1>0, <1>c, <1>1, <1>6
    <3>2. mode = "write" <=> step # "guard"
      BY <1>0, <1>c, <1>2
    <3> QED
      BY <1>0, <1>c, <1>1, <1>2, <1>3, <1>4, <3>1, <3>2 DEF StepInv, HoldsLanes, HoldsGuarded, Go, Simd, e
  <2>2. Current' = c
    BY <1>0, <1>c
  <2> QED
    BY <1>0, <1>c, <1>1, <1>2, <1>5, <1>6, <2>1, <2>2 DEF Inv, RunInv, OnHost
<1>8. PendingInv'
  <2>1. k' # k + 1
    BY <1>0, AtCurrent
  <2> QED
    BY <1>0, <1>c, <1>1, <1>6, <2>1, PendingMoves
<1>9. FirstInv'
  <2>1. mode # "write" => step = "guard"
    BY <1>0, <1>c
  <2> QED
    BY <1>0, <1>c, <1>1, <1>2, <1>5, <1>6, <2>1, FirstMoves, Kinds
<1>10. HelperInv'
  <2>1. disk[<<c, "go">>] \notin LanesFile
    BY <1>c, <1>1, Kinds DEF Go
  <2>2. \A p \in Path : /\ disk'[p] \in LanesFile <=> disk[p] \in LanesFile
                        /\ disk'[p] \in LanesFile => disk'[p] = disk[p]
    BY <1>5, <1>6, <2>1
  <2>3. /\ InMemory' <=> InMemory
        /\ (Unwritten' /\ Current' \in pkg.checks) => helper \/ mode = "print" \/ runs # 1
    BY <1>0, <1>c, <1>1, <1>2 DEF InMemory, Unwritten, Inv, HelperInv, t
  <2> QED
    BY <1>0, <1>c, <1>1, <2>2, <2>3, LanesStay
<1> QED
  BY <1>6, <1>7, <1>8, <1>9, <1>10 DEF Inv

(* f.go is written: guarded, or rewritten.                                 *)
LEMMA WriteGoKeeps == ASSUME Inv, GuardOriginal \/ WriteBack PROVE Inv'
<1>0. /\ pkg' = pkg /\ k' = k + 1 /\ step' = "file" /\ step = "go" /\ k \in DOMAIN pkg.order
      /\ mode \in {"split", "write"} /\ mode' = mode /\ loaded' = loaded /\ helper' = helper
      /\ runs' = runs /\ outcome' = outcome
      /\ disk' = [disk EXCEPT ![<<Current, "go">>] = result]
  BY DEF GuardOriginal, WriteBack, Write, Written, AtFile, NextFile
<1>c. PICK c \in Files : c = Current
  BY <1>0, AtCurrent
<1>1. /\ c \in Files /\ HasLoop(c) /\ OnHost(c) /\ k > 0 /\ outcome = "running"
      /\ k + 1 \in 0..(Len(pkg.order) + 1) /\ k + 1 > 0
  BY <1>0, <1>c, AtCurrent
<1>2. /\ mode = "write" => result \in LanesFile /\ (result.helper => c \in pkg.checks)
      /\ mode = "split" => /\ result \in ScalarFile /\ result.whole /\ Simd(c) \in LanesFile
                           /\ pkg.mention[c] # "package" => result.parses
                           /\ pkg.mention[c] = "nothing" => result.tag = "nosimd"
      /\ Go(c) \notin LanesFile
  <2>1. Go(c) = Emptied(result) /\ ~Emptied(result).whole
    BY <1>0, <1>c, CutKinds DEF Inv, RunInv, StepInv
  <2> QED
    BY <1>0, <1>c, <2>1, Kinds DEF Inv, RunInv, StepInv, HoldsLanes, HoldsGuarded
<1>3. result # Absent /\ result.whole /\ result \notin TornFile
  BY <1>0, <1>c, <1>2, Kinds
<1>4. /\ DiskInv'
      /\ \A g \in Files : Go(g)' = IF g = c THEN result ELSE Go(g)
      /\ \A g \in Files : Simd(g)' = Simd(g)
      /\ \A p \in Path : p # <<c, "go">> => disk'[p] = disk[p]
      /\ disk'[<<c, "go">>] = result
  BY <1>0, <1>c, <1>1, <1>2, <1>3, GoWritten DEF Inv
<1>5. RunInv'
  <2>1. StepInv'
    BY <1>0, <1>c DEF StepInv
  <2>2. c = Current /\ c \in loaded
    BY <1>0, <1>c DEF Inv, RunInv, StepInv
  <2>3. \A f \in Files : (Go(f)' # Absent /\ Go(f)'.tag = "none" /\ OnHost(f)) => f \in loaded /\ Go(f)'.whole
    BY <1>c, <1>1, <1>3, <1>4, <2>2 DEF Inv, RunInv
  <2>4. loaded \subseteq {f \in Files : Go(f)' # Absent /\ OnHost(f)}
    BY <1>3, <1>4 DEF Inv, RunInv
  <2> QED
    BY <1>0, <1>c, <1>1, <2>1, <2>3, <2>4 DEF Inv, RunInv, OnHost
<1>6. PendingInv'
  <2>1. GuardsAll => ~Pending(c)'
    BY <1>0, <1>c, <1>1, <1>2, <1>4, Kinds DEF Pending, GuardsAll
  <2> QED
    BY <1>0, <1>c, <1>1, <1>4, <2>1, PendingMoves
<1>7. FirstInv'
  BY <1>0, <1>c, <1>1, <1>2, <1>3, <1>4, Kinds, FirstMoves
<1>8. HelperInv'
  <2>1. <<c, "go">> \in Path /\ <<c, "go">>[1] = c /\ disk[<<c, "go">>] \notin LanesFile /\ c = Current
    BY <1>c, <1>1, <1>2, Paths DEF Go
  <2>2. CASE mode = "write"
    <3>1. Unwritten /\ ~Unwritten'
      BY <1>0, <1>c, <2>2 DEF Unwritten
    <3> QED
      BY <1>0, <1>c, <1>1, <1>2, <1>4, <2>1, <2>2, <3>1, HelperWritten
  <2>3. CASE mode = "split"
    <3>1. result \notin LanesFile
      BY <1>2, <2>3, Kinds
    <3>2. ~Unwritten /\ ~Unwritten'
      BY <1>0, <1>c, <2>3 DEF Unwritten
    <3>3. \A p \in Path : /\ disk'[p] \in LanesFile <=> disk[p] \in LanesFile
                          /\ disk'[p] \in LanesFile => disk'[p] = disk[p]
      BY <1>4, <2>1, <3>1
    <3> QED
      BY <1>0, <1>c, <1>1, <3>2, <3>3, LanesStay DEF InMemory
  <2> QED
    BY <1>0, <1>c, <2>2, <2>3
<1> QED
  BY <1>4, <1>5, <1>6, <1>7, <1>8 DEF Inv

(* A run that comes to its end has dealt with every file of the package.   *)
LEMMA FinishKeeps == ASSUME Inv, Finish PROVE Inv'
<1>0. /\ disk' = disk /\ pkg' = pkg /\ pkg \in Packages /\ k' = 0 /\ step' = "file" /\ outcome' = "ok"
      /\ mode' = mode /\ loaded' = loaded /\ helper' = helper /\ runs' = runs
      /\ k = Len(pkg.order) + 1 /\ k \in Nat /\ k > 0 /\ k \notin DOMAIN pkg.order
  BY Orders DEF Finish, Ends, Inv, DiskInv, RunInv
<1>1. DiskInv'
  BY <1>0 DEF Inv, DiskInv, Go, Simd, HasLoop, OnHost
<1>2. step = "file" /\ outcome = "running" /\ \A j \in DOMAIN pkg.order : j < k
  BY <1>0, Orders DEF Inv, RunInv, StepInv
<1>3. ~(k' > 0) /\ \A j \in DOMAIN pkg'.order : ~(j < k')
  BY <1>0, Orders
<1>4. RunInv'
  <2>1. k' \in 0..(Len(pkg.order) + 1) /\ StepInv'
    BY <1>0, Orders DEF StepInv
  <2> QED
    BY <1>0, <1>3, <2>1 DEF Inv, RunInv, Go, OnHost
<1>5. PendingInv'
  <2>1. ASSUME GuardsAll, mode # "print", NEW f \in Files, Pending(f) PROVE FALSE
    <3>1. HasLoop(f)
      BY <2>1 DEF Inv, DiskInv, Pending
    <3> QED
      BY <1>2, <2>1, <3>1 DEF Inv, PendingInv, HasLoop
  <2> QED
    BY <1>0, <1>3, <2>1 DEF PendingInv, Pending, Go, Simd, GuardsAll
<1>6. FirstInv'
  <2>1. runs # 0 /\ \A f \in Files : runs = 1 => Go(f) \notin TornFile
    BY <1>0, <1>2 DEF Inv, FirstInv
  <2> QED
    BY <1>0, <1>3, <2>1 DEF Inv, FirstInv, Go, Simd
<1>7. HelperInv'
  <2>1. ASSUME runs = 1, mode # "print" PROVE OneHelper /\ HelperWhereCalled
    <3>1. ~InMemory
      BY <1>2 DEF InMemory, Unwritten
    <3> QED
      BY <1>0, <2>1, <3>1 DEF Inv, HelperInv, HelperWhereCalled, HasHelper
  <2> QED
    BY <1>0, <1>3, <2>1 DEF HelperInv, OneHelper, HelperWhereCalled, HasHelper
<1> QED
  BY <1>1, <1>4, <1>5, <1>6, <1>7 DEF Inv

(* A run that is stopped leaves what it was writing cut short.             *)
LEMMA StopKeeps ==
  ASSUME Inv, k > 0, NEW how \in {"error", "killed"}, StopsWriting, Ends(how) PROVE Inv'
<1> DEFINE c == Current
<1>0. /\ pkg' = pkg /\ pkg \in Packages /\ k' = 0 /\ step' = "file" /\ outcome' = how
      /\ mode' = mode /\ loaded' = loaded /\ helper' = helper /\ runs' = runs /\ runs # 0
      /\ ~(k' > 0) /\ how \notin {"ok", "running"}
  BY DEF Ends, Inv, DiskInv, FirstInv
<1>1. /\ DiskInv'
      /\ \A f \in Files : Go(f)' = Go(f) \/ (f = c /\ step = "go" /\ Go(f)' # Absent)
      /\ \A f \in Files : (Go(f)' \in LanesFile \union TornFile /\ Go(f)' # Go(f)) => mode = "write"
      /\ \A f \in Files : Simd(f)' = Simd(f) \/ mode = "split"
  <2>1. CASE ~Writing
    <3>1. disk' = disk
      BY <2>1 DEF StopsWriting
    <3> QED
      BY <1>0, <3>1 DEF Inv, DiskInv, Go, Simd, HasLoop, OnHost
  <2>2. CASE step = "simd"
    <3>1. PICK x \in CutShort(result) : disk' = [disk EXCEPT ![<<c, "_simd.go">>] = x]
      BY <2>2 DEF StopsWriting, Writing, Written
    <3>2. result \in LanesFile /\ mode = "split" /\ k \in DOMAIN pkg.order
      BY <2>2 DEF Inv, RunInv, StepInv, HoldsLanes
    <3>3. x \in TornFile /\ (x.tag = "none" => ~x.parses)
      BY <3>1, <3>2, CutKinds
    <3>4. c \in Files /\ HasLoop(c) /\ Go(c) # Absent /\ Go(c).tag = "none" /\ Go(c).whole
      BY <2>2, <3>2, AtCurrent
    <3> HIDE DEF c
    <3>5. /\ DiskInv'
          /\ \A g \in Files : Go(g)' = Go(g)
      BY <1>0, <3>1, <3>3, <3>4, SimdWritten DEF Inv
    <3> QED
      BY <3>2, <3>5
  <2>3. CASE step = "go"
    <3>1. PICK x \in CutShort(result) : disk' = [disk EXCEPT ![<<c, "go">>] = x]
      BY <2>3 DEF StopsWriting, Writing, Written
    <3>2. /\ k \in DOMAIN pkg.order /\ mode \in {"split", "write"}
          /\ mode = "write" => result \in LanesFile
          /\ mode = "split" => result \in ScalarFile /\ Simd(c) \in LanesFile
      BY <2>3 DEF Inv, RunInv, StepInv, HoldsLanes, HoldsGuarded
    <3>3. /\ x.tag = "none" => ~x.parses
          /\ x # Absent
          /\ mode = "write" => x \in TornFile
          /\ mode = "split" => x \in ScalarFile /\ ~x.whole
      BY <3>1, <3>2, CutKinds, Kinds
    <3>4. c \in Files /\ HasLoop(c)
      BY <2>3, <3>2, AtCurrent
    <3> HIDE DEF c
    <3>5. /\ DiskInv'
          /\ \A g \in Files : Go(g)' = IF g = c THEN x ELSE Go(g)
          /\ \A g \in Files : Simd(g)' = Simd(g)
      BY <1>0, <3>1, <3>2, <3>3, <3>4, GoWritten DEF Inv
    <3> QED
      BY <2>3, <3>2, <3>3, <3>5, Kinds
  <2> QED
    BY <2>1, <2>2, <2>3 DEF Writing
<1>2. RunInv'
  <2>1. k' \in 0..(Len(pkg.order) + 1) /\ StepInv'
    BY <1>0, Orders DEF StepInv
  <2> QED
    BY <1>0, <1>1, <2>1 DEF Inv, RunInv, OnHost
<1>3. PendingInv'
  <2>1. \A j \in DOMAIN pkg'.order : ~(j < k')
    BY <1>0, Orders
  <2> QED
    BY <1>0, <2>1 DEF PendingInv
<1>4. FirstInv'
  BY <1>0, <1>1 DEF Inv, FirstInv
<1>5. HelperInv'
  BY <1>0 DEF HelperInv
<1> QED
  BY <1>1, <1>2, <1>3, <1>4, <1>5 DEF Inv

LEMMA InvStep == Inv /\ [Next]_vars => Inv'
<1> SUFFICES ASSUME Inv, [Next]_vars PROVE Inv'
  OBVIOUS
<1>1. CASE UNCHANGED vars
  BY <1>1 DEF vars, Inv, DiskInv, RunInv, StepInv, HoldsLanes, HoldsGuarded, PendingInv, FirstInv, HelperInv,
     Go, Simd, OnHost, HasLoop, Current, Pending, GuardsAll, Behind, HasHelper, OneHelper, HelperWhereCalled,
     InMemory, Unwritten
<1>2. CASE WriteFails \/ Kill
  BY <1>2, StopKeeps DEF WriteFails, Kill
<1>3. CASE SplitFile \/ OverwriteFile
  BY <1>3, CreateSimdKeeps, WriteSimdKeeps, EmptyKeeps, WriteGoKeeps DEF SplitFile, OverwriteFile
<1> QED
  BY <1>1, <1>2, <1>3, AddKeeps, StartKeeps, PassOverKeeps, RewriteKeeps, PrintKeeps, FinishKeeps
  DEF Next, NoRunLeft

(* The invariant of the proofs.                                            *)
THEOREM Invariance == Spec => []Inv
  BY InvInit, InvStep, PTL DEF Spec

-----------------------------------------------------------------------------
(* What the go command takes of the package.                               *)
LEMMA TakenFiles ==
  ASSUME Inv, NEW s, NEW simd \in BOOLEAN, NEW p \in Takes(s, simd)
  PROVE  /\ p \in Path /\ p[1] \in Files /\ disk[p] # Absent
         /\ disk[p].tag \in {"none", IF simd THEN "simd" ELSE "nosimd"}
         /\ disk[p] \in ScalarFile \/ (simd /\ disk[p] \in LanesFile) \/ disk[p] \in TornFile
         /\ disk[p] \in ScalarFile => p = <<p[1], "go">> /\ disk[p] = Go(p[1])
         /\ disk[p] \in LanesFile \union TornFile => HasLoop(p[1])
         /\ pkg.on[p[1]] \in {s, AnySystem} \/ disk[p] \in LanesFile \union TornFile
         /\ pkg.mention[p[1]] # "package" /\ disk[p].whole => disk[p].parses
<1>1. p \in Path /\ disk[p] # Absent /\ Suits(p, s) /\ disk[p].tag \in {"none", IF simd THEN "simd" ELSE "nosimd"}
  BY DEF Takes
<1>2. disk[p] \in ScalarFile \/ (simd /\ disk[p] \in LanesFile) \/ disk[p] \in TornFile
  BY <1>1, Kinds DEF Inv, DiskInv, AnyFile
<1>3. p[1] \in Files /\ (p = <<p[1], "go">> \/ p = <<p[1], "_simd.go">>)
  BY <1>1, Paths
<1>4. disk[p] \in ScalarFile => p = <<p[1], "go">> /\ disk[p] = Go(p[1])
  BY <1>3 DEF Inv, DiskInv, Simd, Go
<1>5. disk[p] \in LanesFile \union TornFile => HasLoop(p[1])
  BY <1>1 DEF Inv, DiskInv
<1>6. pkg.on[p[1]] \in {s, AnySystem} \/ disk[p] \in LanesFile \union TornFile
  BY <1>1, <1>2, <1>4 DEF Suits
<1>7. pkg.mention[p[1]] # "package" /\ disk[p].whole => disk[p].parses
  BY <1>2, <1>3, <1>4, Kinds DEF Inv, DiskInv
<1> QED
  BY <1>1, <1>2, <1>3, <1>4, <1>5, <1>6, <1>7

(* Two files of a system that declare the same are one file.               *)
LEMMA DeclaredOnce ==
  ASSUME pkg \in Packages, NEW s \in Systems, NEW f \in Files, NEW g \in Files,
         pkg.declares[f] = pkg.declares[g], pkg.on[f] \in {s, AnySystem}, pkg.on[g] \in {s, AnySystem}
  PROVE  f = g
  BY SplitAssumption DEF WellFormed

(* Wherever a run is stopped, every system has its scalar build unless a   *)
(* file that it takes is cut short: "the scalar version builds by default".*)
THEOREM OnlyTornFilesBreakScalar == Spec => []ScalarBuilds
<1>1. Inv => ScalarBuilds
  <2> SUFFICES ASSUME Inv, CutsNoComment, ~Overwritten, NEW s \in Systems,
                      \A p \in Takes(s, FALSE) : disk[p].whole
               PROVE  Builds(s, FALSE)
    BY DEF ScalarBuilds
  <2>1. \A p \in Takes(s, FALSE) :
          /\ p[1] \in Files /\ disk[p] \in ScalarFile /\ p = <<p[1], "go">> /\ disk[p].parses
          /\ pkg.on[p[1]] \in {s, AnySystem}
    <3> TAKE p \in Takes(s, FALSE)
    <3>1. /\ p[1] \in Files /\ disk[p] \in ScalarFile
          /\ disk[p] \in ScalarFile => p = <<p[1], "go">>
          /\ pkg.mention[p[1]] # "package" => disk[p].parses
      BY TakenFiles, Kinds
    <3>2. pkg.on[p[1]] \in {s, AnySystem}
      BY <3>1, TakenFiles, Kinds
    <3>3. disk[p].parses
      BY <3>1 DEF CutsNoComment
    <3> QED
      BY <3>1, <3>2, <3>3
  <2>2. \A p \in Takes(s, FALSE) : ~disk[p].helper /\ ~Calls(p)
    BY <2>1, Kinds DEF Calls
  <2>3. \A p, q \in Takes(s, FALSE) : pkg.declares[p[1]] = pkg.declares[q[1]] => p = q
    <3>1. pkg \in Packages
      BY DEF Inv, DiskInv
    <3> QED
      BY <2>1, <3>1, DeclaredOnce
  <2>4. Compiles(Takes(s, FALSE))
    BY <2>1, <2>2, <2>3 DEF Compiles
  <2>5. ASSUME NEW f \in Files, disk[<<f, "go">>] # Absent, Suits(<<f, "go">>, s)
        PROVE  <<f, "go">> \in Takes(s, FALSE)
    <3>1. Go(f) \in ScalarFile
      <4>1. Go(f) \notin LanesFile \union TornFile
        BY <2>5, Kinds DEF Overwritten, Go
      <4> QED
        BY <2>5, <4>1, Paths DEF Inv, DiskInv, Go, AnyFile
    <3> QED
      BY <2>5, <3>1, Kinds, Paths DEF Takes, Go
  <2> QED
    BY <2>4, <2>5 DEF Builds
<1> QED
  BY <1>1, Invariance, PTL

(* -split empties a source only with its simd version on the disk, whole.  *)
THEOREM SourceNeverLost == Spec => []SourceKept
<1>1. Inv => SourceKept
  <2> SUFFICES ASSUME Inv, ~Overwritten, NEW f \in Files, Go(f) # Absent, ~Go(f).whole
               PROVE  Simd(f) # Absent /\ Simd(f).whole
    BY DEF SourceKept, Go, Simd
  <2>1. Go(f) \in ScalarFile
    <3>1. Go(f) \notin LanesFile \union TornFile
      BY Kinds DEF Overwritten, Go
    <3> QED
      BY <3>1, Paths DEF Inv, DiskInv, Go, AnyFile
  <2> QED
    BY <2>1, Kinds DEF Inv, DiskInv
<1> QED
  BY <1>1, Invariance, PTL

-----------------------------------------------------------------------------
(* After a run that ended well a source that a simd build takes has no     *)
(* simd version beside it.                                                 *)
LEMMA NotBoth ==
  ASSUME Inv, GuardsAll, outcome = "ok", mode # "print", runs = 1 \/ ~Overwritten, NEW f \in Files, Simd(f) # Absent
  PROVE  Go(f) \in ScalarFile /\ Go(f).tag = "nosimd" /\ Simd(f) \in LanesFile
<1>1. Go(f) # Absent /\ Go(f).tag # "none"
  BY DEF Inv, DiskInv, PendingInv, Pending
<1>2. Go(f) \in ScalarFile
  <2>1. ASSUME Go(f) \in LanesFile \union TornFile PROVE FALSE
    <3>1. Go(f).code = "lanes"
      BY <2>1, Kinds
    <3>2. runs = 1
      BY <1>1, <3>1 DEF Overwritten, Go
    <3> QED
      BY <2>1, <3>2 DEF Inv, FirstInv
  <2> QED
    BY <1>1, <2>1, Paths DEF Inv, DiskInv, Go, AnyFile
<1> QED
  BY <1>1, <1>2, Kinds DEF Inv, DiskInv

(* A simd version that was cut short is written again: a run that ends     *)
(* well leaves them whole.                                                 *)
THEOREM SimdVersionsWhole == Spec => []SimdWhole
<1>1. Inv => SimdWhole
  BY NotBoth, Kinds DEF SimdWhole, Simd
<1> QED
  BY <1>1, Invariance, PTL

(* After a run that ended well the simd build takes one version of a file, *)
(* and whole ones.                                                         *)
LEMMA OneVersion ==
  ASSUME Inv, GuardsAll, outcome = "ok", mode # "print", runs = 1 \/ ~Overwritten,
         NEW p \in Takes(Host, TRUE), NEW q \in Takes(Host, TRUE), p[1] = q[1]
  PROVE  p = q
<1> DEFINE f == p[1]
<1>1. f \in Files /\ p \in Path /\ q \in Path /\ disk[p] # Absent /\ disk[q] # Absent
  BY TakenFiles
<1>2. disk[p].tag \in {"none", "simd"} /\ disk[q].tag \in {"none", "simd"}
  BY TakenFiles
<1>3. ~(Go(f) # Absent /\ Go(f).tag \in {"none", "simd"} /\ Simd(f) # Absent)
  BY <1>1, NotBoth
<1> QED
  BY <1>1, <1>2, <1>3, Paths DEF Go, Simd

LEMMA WholeVersions ==
  ASSUME Inv, GuardsAll, outcome = "ok", mode # "print", runs = 1 \/ ~Overwritten, NEW p \in Takes(Host, TRUE)
  PROVE  disk[p].whole /\ (disk[p] \in ScalarFile \/ disk[p] \in LanesFile)
<1>1. /\ p \in Path /\ p[1] \in Files /\ disk[p] # Absent /\ disk[p].tag \in {"none", "simd"}
      /\ disk[p] \in ScalarFile \/ disk[p] \in LanesFile \/ disk[p] \in TornFile
  BY TakenFiles
<1>2. p = <<p[1], "go">> \/ p = <<p[1], "_simd.go">>
  BY <1>1, Paths
<1>3. CASE p = <<p[1], "_simd.go">>
  <2>1. disk[p] = Simd(p[1])
    BY <1>3 DEF Simd
  <2> QED
    BY <1>1, <2>1, NotBoth, Kinds
<1>4. CASE p = <<p[1], "go">>
  <2>1. disk[p] = Go(p[1])
    BY <1>4 DEF Go
  <2>2. disk[p] \notin TornFile
    <3>1. step = "file"
      BY AtCurrent DEF Inv, RunInv, StepInv
    <3>2. disk[p] \in TornFile => runs = 1
      BY <1>1, <1>4, Kinds DEF Overwritten
    <3> QED
      BY <1>1, <2>1, <3>1, <3>2 DEF Inv, FirstInv
  <2>3. disk[p] \in ScalarFile => disk[p].whole
    <3>1. disk[p] \in ScalarFile /\ ~disk[p].whole => Simd(p[1]) # Absent
      BY <1>1, <2>1, Kinds DEF Inv, DiskInv
    <3>2. Simd(p[1]) # Absent => Go(p[1]).tag = "nosimd"
      BY <1>1, NotBoth
    <3> QED
      BY <1>1, <2>1, <3>1, <3>2
  <2> QED
    BY <1>1, <2>2, <2>3, Kinds
<1> QED
  BY <1>2, <1>3, <1>4

(* A run that ends well leaves a simd build on the system it ran on: "the  *)
(* simd version builds when GOEXPERIMENT=simd is set".                     *)
THEOREM SimdBuildsAfterARun == Spec => []SimdBuilds
<1>1. Inv => SimdBuilds
  <2> SUFFICES ASSUME Inv, GuardsAll, outcome = "ok", mode # "print",
                      runs = 1 \/ (pkg.checks = {} /\ ~Overwritten)
               PROVE  Builds(Host, TRUE)
    BY DEF SimdBuilds
  <2> DEFINE T == Takes(Host, TRUE)
  <2>1. \A p \in T : /\ p \in Path /\ p[1] \in Files /\ disk[p].parses /\ OnHost(p[1])
                     /\ HasHelper(p) <=> disk[p].helper
                     /\ Calls(p) => disk[p] \in LanesFile /\ p[1] \in pkg.checks
    <3> TAKE p \in T
    <3>1. p \in Path /\ p[1] \in Files /\ (disk[p] \in ScalarFile \/ disk[p] \in LanesFile) /\ disk[p].whole
      BY TakenFiles, WholeVersions
    <3>2. disk[p].parses
      BY <3>1, TakenFiles DEF GuardsAll
    <3>3. OnHost(p[1])
      BY TakenFiles DEF OnHost, HasLoop
    <3>4. HasHelper(p) <=> disk[p].helper
      BY <3>1, Kinds DEF HasHelper
    <3>5. Calls(p) => disk[p] \in LanesFile /\ p[1] \in pkg.checks
      BY <3>1, Kinds DEF Calls
    <3> QED
      BY <3>1, <3>2, <3>3, <3>4, <3>5
  <2>2. \A p, q \in T : pkg.declares[p[1]] = pkg.declares[q[1]] => p = q
    <3> TAKE p, q \in T
    <3> HAVE pkg.declares[p[1]] = pkg.declares[q[1]]
    <3>1. p[1] = q[1]
      BY <2>1, DeclaredOnce, SplitAssumption DEF Inv, DiskInv, OnHost
    <3> QED
      BY <3>1, OneVersion
  <2>3. \A p \in Path : HasHelper(p) => p \in T /\ p[1] \in pkg.checks
    <3> TAKE p \in Path
    <3> HAVE HasHelper(p)
    <3>1. disk[p] \in LanesFile /\ HasLoop(p[1]) /\ p[1] \in pkg.checks
      BY DEF HasHelper, Inv, DiskInv
    <3>2. disk[p] # Absent /\ disk[p].tag = "simd" /\ Suits(p, Host)
      BY <3>1, Kinds DEF Suits, HasLoop, OnHost
    <3> QED
      BY <3>1, <3>2 DEF Takes
  <2>4. \A p, q \in T : disk[p].helper /\ disk[q].helper => p = q
    BY <2>1, <2>3 DEF Inv, HelperInv, OneHelper
  <2>5. \A p \in T : Calls(p) => \E q \in T : disk[q].helper
    <3> TAKE p \in T
    <3> HAVE Calls(p)
    <3>1. runs = 1 /\ HelperWhereCalled
      BY <2>1 DEF Inv, HelperInv
    <3>2. PICK q \in Path : HasHelper(q)
      BY <2>1, <3>1 DEF HelperWhereCalled
    <3> QED
      BY <2>1, <2>3, <3>2
  <2>6. Compiles(T)
    BY <2>1, <2>2, <2>4, <2>5 DEF Compiles
  <2>7. ASSUME NEW f \in Files, disk[<<f, "go">>] # Absent, Suits(<<f, "go">>, Host)
        PROVE  \E p \in T : disk[p].whole /\ pkg.declares[p[1]] = pkg.declares[f]
    <3>1. Go(f).tag \in {"none", "nosimd", "simd"} /\ Go(f) # Absent
      <4>1. Go(f) \in ScalarFile \/ Go(f) \in LanesFile \/ Go(f) \in TornFile
        BY <2>7, Paths DEF Inv, DiskInv, Go, AnyFile
      <4>2. Go(f) \notin TornFile
        <5>1. step = "file"
          BY AtCurrent DEF Inv, RunInv, StepInv
        <5>2. Go(f) \in TornFile => runs = 1
          BY <2>7, Kinds DEF Overwritten, Go
        <5> QED
          BY <5>1, <5>2 DEF Inv, FirstInv
      <4> QED
        BY <2>7, <4>1, <4>2, Kinds DEF Go
    <3>2. CASE Go(f).tag # "nosimd"
      <4>1. <<f, "go">> \in T
        BY <2>7, <3>1, <3>2, Paths DEF Takes, Go
      <4> QED
        BY <4>1, WholeVersions
    <3>3. CASE Go(f).tag = "nosimd"
      <4>1. Simd(f) # Absent /\ Simd(f) \in LanesFile
        BY <3>1, <3>3, Kinds, Paths DEF Inv, DiskInv, Go, AnyFile
      <4>2. disk[<<f, "_simd.go">>].tag = "simd"
        BY <4>1, Kinds, Paths DEF Inv, DiskInv, Simd
      <4>3. <<f, "_simd.go">> \in T
        BY <4>1, <4>2, Paths DEF Takes, Simd, Suits
      <4> QED
        BY <4>3, WholeVersions
    <3> QED
      BY <3>2, <3>3
  <2> QED
    BY <2>6, <2>7 DEF Builds
<1> QED
  BY <1>1, Invariance, PTL
=============================================================================
